---- MODULE Spec2Model ----
(***************************************************************************)
(* Entity-resolution engine of the ProfileMatchingAgent: the per-field     *)
(* scorers, the weighted aggregation, the strong-match and minimum-        *)
(* requirements rules, the per-source search with ranking and capping, and *)
(* the merge into one profile.                                             *)
(*                                                                         *)
(* Text values are sequences of one-character strings.  Scores are whole   *)
(* numbers 0..100: a library ratio is floored, which leaves every          *)
(* comparison against the (integral) thresholds of the code unchanged.     *)
(* The overall score is a Python float, computed in binary64 arithmetic.   *)
(***************************************************************************)
EXTENDS Integers, Sequences, FiniteSets, TLC

Max2(a, b) == IF a >= b THEN a ELSE b
Min2(a, b) == IF a <= b THEN a ELSE b

RECURSIVE MaxOfSeq(_)
MaxOfSeq(s) == IF Len(s) = 0 THEN 0 ELSE Max2(Head(s), MaxOfSeq(Tail(s)))

RECURSIVE SumOfSeq(_)
SumOfSeq(s) == IF Len(s) = 0 THEN 0 ELSE Head(s) + SumOfSeq(Tail(s))

(***************************************************************************)
(* Python float: IEEE 754 binary64, round to nearest, ties to even.        *)
(* A float is [m, e] with value m * 2^e; m is a natural number held as its *)
(* base-2^15 digits, least significant first, of exactly 53 bits (0: <<>>).*)
(***************************************************************************)
LimbBits == 15
Base == 2 ^ LimbBits
MantissaBits == 53

Limb(a, i) == IF i <= Len(a) THEN a[i] ELSE 0

RECURSIVE BigNorm(_)
BigNorm(a) == IF Len(a) > 0 /\ a[Len(a)] = 0 THEN BigNorm(SubSeq(a, 1, Len(a) - 1)) ELSE a

RECURSIVE BigAddFrom(_, _, _, _, _)
BigAddFrom(a, b, i, carry, acc) ==
    IF i > Max2(Len(a), Len(b)) THEN (IF carry = 0 THEN acc ELSE Append(acc, carry))
    ELSE LET s == Limb(a, i) + Limb(b, i) + carry
         IN BigAddFrom(a, b, i + 1, s \div Base, Append(acc, s % Base))
BigAdd(a, b) == BigAddFrom(a, b, 1, 0, <<>>)

\* a - b for a >= b
RECURSIVE BigSubFrom(_, _, _, _, _)
BigSubFrom(a, b, i, borrow, acc) ==
    IF i > Len(a) THEN BigNorm(acc)
    ELSE LET s == a[i] - Limb(b, i) - borrow
         IN BigSubFrom(a, b, i + 1, IF s < 0 THEN 1 ELSE 0, Append(acc, IF s < 0 THEN s + Base ELSE s))
BigSub(a, b) == BigSubFrom(a, b, 1, 0, <<>>)

\* -1, 0, 1 as a < b, a = b, a > b
RECURSIVE BigCmpFrom(_, _, _)
BigCmpFrom(a, b, i) ==
    IF i = 0 THEN 0
    ELSE IF a[i] < b[i] THEN -1
         ELSE IF a[i] > b[i] THEN 1 ELSE BigCmpFrom(a, b, i - 1)
BigCmp(a, b) ==
    IF Len(a) < Len(b) THEN -1
    ELSE IF Len(a) > Len(b) THEN 1 ELSE BigCmpFrom(a, b, Len(a))

RECURSIVE BigMulSmallFrom(_, _, _, _, _)
BigMulSmallFrom(a, k, i, carry, acc) ==
    IF i > Len(a) THEN (IF carry = 0 THEN acc ELSE Append(acc, carry))
    ELSE LET p == a[i] * k + carry
         IN BigMulSmallFrom(a, k, i + 1, p \div Base, Append(acc, p % Base))
BigMulSmall(a, k) == IF k = 0 THEN <<>> ELSE BigMulSmallFrom(a, k, 1, 0, <<>>)

Zeros(k) == [i \in 1..k |-> 0]

RECURSIVE BigMulFrom(_, _, _, _)
BigMulFrom(a, b, j, acc) ==
    IF Len(acc) >= 0 /\ j > Len(b) THEN acc
    ELSE BigMulFrom(a, b, j + 1,
                    IF b[j] = 0 THEN acc ELSE BigAdd(acc, Zeros(j - 1) \o BigMulSmall(a, b[j])))
BigMul(a, b) == IF Len(a) = 0 \/ Len(b) = 0 THEN <<>> ELSE BigMulFrom(a, b, 1, <<>>)

\* a * 2^s
BigShl(a, s) ==
    IF Len(a) = 0 THEN <<>>
    ELSE Zeros(s \div LimbBits) \o BigMulSmall(a, 2 ^ (s % LimbBits))

\* floor(a / 2^s)
BigShr(a, s) ==
    LET q == s \div LimbBits
        r == s % LimbBits
        rest == IF q >= Len(a) THEN <<>> ELSE SubSeq(a, q + 1, Len(a))
    IN BigNorm([i \in 1..Len(rest) |->
                   (rest[i] \div 2 ^ r) + (Limb(rest, i + 1) % 2 ^ r) * 2 ^ (LimbBits - r)])

BigFromInt(n) == BigNorm(<<n % Base, (n \div Base) % Base, n \div (Base * Base)>>)

\* the number of binary digits
BitLen(a) ==
    IF Len(a) = 0 THEN 0
    ELSE (Len(a) - 1) * LimbBits + (CHOOSE k \in 1..LimbBits : a[Len(a)] < 2 ^ k /\ a[Len(a)] >= 2 ^ (k - 1))

BigIsOdd(a) == Len(a) > 0 /\ a[1] % 2 = 1

\* one step of the long division: quotient bit i
BigDivBit(rq, t, i) ==
    IF BigCmp(rq.r, t) >= 0
    THEN [r |-> BigSub(rq.r, t), q |-> BigAdd(rq.q, BigShl(<<1>>, i))]
    ELSE rq

\* the quotient bits hi down to lo, the upper half of the range first
RECURSIVE BigDivBits(_, _, _, _)
BigDivBits(rq, d, hi, lo) ==
    IF Len(rq.q) >= 0 /\ hi < lo THEN rq
    ELSE IF hi = lo THEN BigDivBit(rq, BigShl(d, hi), hi)
         ELSE BigDivBits(BigDivBits(rq, d, hi, (hi + lo) \div 2 + 1), d, (hi + lo) \div 2, lo)

\* floor(n / d) and whether the division leaves no remainder
BigDivResult(rq) == [quot |-> rq.q, exact |-> Len(rq.r) = 0]
BigDiv(n, d) ==
    BigDivResult(BigDivBits([r |-> n, q |-> <<>>], d, Max2(BitLen(n) - BitLen(d), 0), 0))

FloatZero == [m |-> <<>>, e |-> 0]

\* the float nearest to m * 2^e, ties to even
FloatRound(m, e) ==
    LET Normal(rounded, shift) ==
            IF BitLen(rounded) > MantissaBits
            THEN [m |-> BigShr(rounded, 1), e |-> e + shift + 1]
            ELSE [m |-> rounded, e |-> e + shift]
        RoundQuotient(q, rem, half) ==
            IF BigCmp(rem, half) > 0 \/ (BigCmp(rem, half) = 0 /\ BigIsOdd(q))
            THEN BigAdd(q, <<1>>) ELSE q
        Shifted(q, shift) ==
            Normal(RoundQuotient(q, BigSub(m, BigShl(q, shift)), BigShl(<<1>>, shift - 1)), shift)
        Round(len) ==
            IF len = 0 THEN FloatZero
            ELSE IF len <= MantissaBits
                 THEN [m |-> BigShl(m, MantissaBits - len), e |-> e + len - MantissaBits]
                 ELSE Shifted(BigShr(m, len - MantissaBits), len - MantissaBits)
    IN Round(BitLen(m))
FloatFromInt(n) == FloatRound(BigFromInt(n), 0)

\* x + y
FloatAdd(x, y) ==
    IF Len(x.m) = 0 THEN y
    ELSE IF Len(y.m) = 0 THEN x
    ELSE LET e == IF x.e < y.e THEN x.e ELSE y.e
         IN FloatRound(BigAdd(BigShl(x.m, x.e - e), BigShl(y.m, y.e - e)), e)

\* x * y
FloatMul(x, y) == FloatRound(BigMul(x.m, y.m), x.e + y.e)

\* x / y for y > 0: the quotient to 57 or 58 bits with a sticky bit, then rounded
FloatDiv(x, y) ==
    LET Sticky(d) == BigAdd(BigShl(d.quot, 1), IF d.exact THEN <<>> ELSE <<1>>)
    IN IF Len(x.m) = 0 THEN FloatZero
       ELSE FloatRound(Sticky(BigDiv(BigShl(x.m, MantissaBits + 4), y.m)),
                       x.e - y.e - MantissaBits - 5)
FloatCmp(x, y) ==
    LET Compare(top_x, top_y) ==
            IF top_x # top_y THEN (IF top_x < top_y THEN -1 ELSE 1) ELSE BigCmp(x.m, y.m)
    IN IF Len(x.m) = 0 THEN (IF Len(y.m) = 0 THEN 0 ELSE -1)
       ELSE IF Len(y.m) = 0 THEN 1
            ELSE Compare(x.e + BitLen(x.m), y.e + BitLen(y.m))

(***************************************************************************)
(* Characters and Python's str operations                                  *)
(***************************************************************************)
\* the characters of the model in code-point order (str comparison in sorted())
Alphabet ==
    <<" ", "'", "-", ".", "/", "0", "1", "2", "3", "4", "5", "6", "7", "8", "9", "@",
      "A", "B", "C", "D", "E", "F", "G", "H", "I", "J", "K", "L", "M",
      "N", "O", "P", "Q", "R", "S", "T", "U", "V", "W", "X", "Y", "Z", "_",
      "a", "b", "c", "d", "e", "f", "g", "h", "i", "j", "k", "l", "m",
      "n", "o", "p", "q", "r", "s", "t", "u", "v", "w", "x", "y", "z">>

Ord(c) == CHOOSE i \in 1..Len(Alphabet) : Alphabet[i] = c

IsUpper(c) == Ord(c) >= Ord("A") /\ Ord(c) <= Ord("Z")
IsLowerAlpha(c) == Ord(c) >= Ord("a") /\ Ord(c) <= Ord("z")
IsDigit(c) == Ord(c) >= Ord("0") /\ Ord(c) <= Ord("9")

\* str.lower()
LowerChar(c) == IF IsUpper(c) THEN Alphabet[Ord(c) - Ord("A") + Ord("a")] ELSE c
Lower(s) == [i \in 1..Len(s) |-> LowerChar(s[i])]

\* str.split(): the words between runs of blanks
RECURSIVE SplitFrom(_, _, _)
SplitFrom(s, i, word) ==
    IF i > Len(s) THEN (IF Len(word) = 0 THEN <<>> ELSE <<word>>)
    ELSE IF s[i] = " "
         THEN (IF Len(word) = 0 THEN <<>> ELSE <<word>>) \o SplitFrom(s, i + 1, <<>>)
         ELSE SplitFrom(s, i + 1, Append(word, s[i]))
Split(s) == SplitFrom(s, 1, <<>>)

\* ' '.join(words)
RECURSIVE Join(_)
Join(words) ==
    IF Len(words) = 0 THEN <<>>
    ELSE IF Len(words) = 1 THEN words[1]
         ELSE words[1] \o <<" ">> \o Join(Tail(words))

\* needle in haystack (substring test of str)
Contains(haystack, needle) ==
    \E i \in 0..(Len(haystack) - Len(needle)) :
        \A j \in 1..Len(needle) : haystack[i + j] = needle[j]

\* a < b in Python's string order
RECURSIVE StrLess(_, _)
StrLess(a, b) ==
    IF Len(b) = 0 THEN FALSE
    ELSE IF Len(a) = 0 THEN TRUE
         ELSE IF a[1] = b[1] THEN StrLess(Tail(a), Tail(b))
              ELSE Ord(a[1]) < Ord(b[1])

\* sorted(set of words)
RECURSIVE SortedWords(_)
SortedWords(ws) ==
    IF ws = {} THEN <<>>
    ELSE LET m == CHOOSE w \in ws : \A v \in ws \ {w} : StrLess(w, v)
         IN <<m>> \o SortedWords(ws \ {m})

\* sorted(list of words), duplicates kept
RECURSIVE InsertWord(_, _)
InsertWord(sorted, w) ==
    IF Len(sorted) = 0 THEN <<w>>
    ELSE IF StrLess(w, sorted[1]) THEN <<w>> \o sorted
         ELSE <<sorted[1]>> \o InsertWord(Tail(sorted), w)
RECURSIVE SortWordList(_)
SortWordList(ws) ==
    IF Len(ws) = 0 THEN <<>> ELSE InsertWord(SortWordList(Tail(ws)), Head(ws))

SeqToSet(s) == {s[i] : i \in 1..Len(s)}

(***************************************************************************)
(* The string-similarity library calls (rapidfuzz.fuzz, difflib)           *)
(***************************************************************************)
\* length of a longest common subsequence, row by row
RECURSIVE LcsCells(_, _, _, _)
LcsCells(c, b, prev, cur) ==
    IF Len(cur) = Len(b) + 1 THEN cur
    ELSE LET j == Len(cur)
             cell == IF c = b[j] THEN prev[j] + 1 ELSE Max2(prev[j + 1], cur[j])
         IN LcsCells(c, b, prev, Append(cur, cell))
RECURSIVE LcsRows(_, _, _, _)
LcsRows(a, b, i, prev) ==
    IF Len(prev) > 0 /\ i > Len(a) THEN prev[Len(b) + 1]
    ELSE LcsRows(a, b, i + 1, LcsCells(a[i], b, prev, <<0>>))
LCS(a, b) == LcsRows(a, b, 1, [j \in 1..(Len(b) + 1) |-> 0])

\* insert/delete distance
IndelDistance(a, b) == Len(a) + Len(b) - 2 * LCS(a, b)

\* 100 - 100 * dist / lensum, floored
NormDistance(dist, lensum) ==
    IF lensum = 0 THEN 100 ELSE (100 * (lensum - dist)) \div lensum

\* fuzz.ratio
fuzz_ratio(a, b) == NormDistance(IndelDistance(a, b), Len(a) + Len(b))

\* fuzz.token_sort_ratio
fuzz_token_sort_ratio(a, b) ==
    fuzz_ratio(Join(SortWordList(Split(a))), Join(SortWordList(Split(b))))

\* fuzz.token_set_ratio
fuzz_token_set_ratio(a, b) ==
    LET Ratios(diff_ab, diff_ba, sect_len) ==
            LET sep == IF sect_len > 0 THEN 1 ELSE 0
                sect_ab_len == sect_len + sep + Len(diff_ab)
                sect_ba_len == sect_len + sep + Len(diff_ba)
                result == NormDistance(IndelDistance(diff_ab, diff_ba), sect_ab_len + sect_ba_len)
                sect_ab_ratio == NormDistance(sep + Len(diff_ab), sect_len + sect_ab_len)
                sect_ba_ratio == NormDistance(sep + Len(diff_ba), sect_len + sect_ba_len)
            IN IF sect_len = 0 THEN result
               ELSE Max2(result, Max2(sect_ab_ratio, sect_ba_ratio))
        OfTokens(tokens_a, tokens_b) ==
            IF tokens_a = {} \/ tokens_b = {} THEN 0
            ELSE IF tokens_a \cap tokens_b # {}
                    /\ (tokens_a \subseteq tokens_b \/ tokens_b \subseteq tokens_a)
                 THEN 100
                 ELSE Ratios(Join(SortedWords(tokens_a \ tokens_b)),
                             Join(SortedWords(tokens_b \ tokens_a)),
                             Len(Join(SortedWords(tokens_a \cap tokens_b))))
    IN OfTokens(SeqToSet(Split(a)), SeqToSet(Split(b)))

\* the windows of the longer string that fuzz.partial_ratio aligns the shorter one with
PartialWindows(len1, s2) ==
    {SubSeq(s2, 1, i) : i \in 1..(len1 - 1)}
    \cup {SubSeq(s2, i + 1, i + len1) : i \in 0..(Len(s2) - len1)}
    \cup {SubSeq(s2, i + 1, Len(s2)) : i \in (Len(s2) - len1 + 1)..(Len(s2) - 1)}
PartialRatioImpl(s1, s2) ==
    LET scores == {fuzz_ratio(s1, w) : w \in PartialWindows(Len(s1), s2)}
    IN CHOOSE m \in scores : \A x \in scores : x <= m

\* fuzz.partial_ratio
fuzz_partial_ratio(a, b) ==
    IF Len(a) = 0 \/ Len(b) = 0 THEN 0
    ELSE IF Len(a) < Len(b) THEN PartialRatioImpl(a, b)
         ELSE IF Len(a) > Len(b) THEN PartialRatioImpl(b, a)
              ELSE Max2(PartialRatioImpl(a, b), PartialRatioImpl(b, a))

\* difflib: longest matching block of a[alo+1..ahi] and b[blo+1..bhi],
\* earliest in a, then earliest in b
MatchLen(a, b, i, j, ahi, bhi) ==
    LET room == IF ahi - i < bhi - j THEN ahi - i + 1 ELSE bhi - j + 1
        ks == {k \in 0..room : \A d \in 0..(k - 1) : a[i + d] = b[j + d]}
    IN CHOOSE k \in ks : \A x \in ks : x <= k
FindLongestMatch(a, b, alo, ahi, blo, bhi) ==
    LET Earliest(top) ==
            LET i0 == CHOOSE i \in {c.i : c \in top} : \A c \in top : i <= c.i
            IN CHOOSE c \in top : c.i = i0 /\ \A d \in top : d.i = i0 => c.j <= d.j
        Longest(cands, best) ==
            IF best = 0 THEN [i |-> alo + 1, j |-> blo + 1, size |-> 0]
            ELSE Earliest({c \in cands : c.size = best})
        Among(cands) ==
            Longest(cands, IF cands = {} THEN 0
                           ELSE CHOOSE m \in {c.size : c \in cands} : \A c \in cands : c.size <= m)
    IN Among({[i |-> i, j |-> j, size |-> MatchLen(a, b, i, j, ahi, bhi)] :
                  i \in (alo + 1)..ahi, j \in (blo + 1)..bhi})
RECURSIVE MatchingChars(_, _, _, _, _, _)
MatchingChars(a, b, alo, ahi, blo, bhi) ==
    LET Around(m) ==
            IF m.size = 0 THEN 0
            ELSE MatchingChars(a, b, alo, m.i - 1, blo, m.j - 1) + m.size
                 + MatchingChars(a, b, m.i + m.size - 1, ahi, m.j + m.size - 1, bhi)
    IN IF alo >= ahi \/ blo >= bhi THEN 0
       ELSE Around(FindLongestMatch(a, b, alo, ahi, blo, bhi))

\* SequenceMatcher(None, a, b).ratio() * 100
SequenceMatcherRatio(a, b) ==
    IF Len(a) + Len(b) = 0 THEN 100
    ELSE (200 * MatchingChars(a, b, 0, Len(a), 0, Len(b))) \div (Len(a) + Len(b))

(***************************************************************************)
(* Static matching configuration (ProfileMatchingAgent.__init__)           *)
(***************************************************************************)
\* a float literal with two decimals: the float nearest to hundredths / 100
Hundredths(hundredths) == FloatDiv(FloatFromInt(hundredths), FloatFromInt(100))

\* MATCH_WEIGHTS: 0.20, 0.40, 0.25, 0.10, 0.05
WeightHundredths ==
    [national_id |-> 20, full_name |-> 40, dob |-> 25, email |-> 10, phone |-> 5]
MATCH_WEIGHTS == [field \in DOMAIN WeightHundredths |-> Hundredths(WeightHundredths[field])]

FUZZY_THRESHOLDS ==
    [national_id |-> 85, full_name |-> 75, dob |-> 90, email |-> 95, phone |-> 85]

MIN_SCORES ==
    [exact_id |-> 100, strong_match |-> 85, good_match |-> 75, weak_match |-> 65]

REQUIRED_MATCH_FIELDS == <<"national_id", "full_name">>

\* NAME_PATTERNS: the nickname table as the dict literal evaluates (a repeated key keeps its last value)
NICKNAMES ==
    <<
       <<<<"l", "e", "o", "n", "a", "r", "d", "o">>, <<<<"l", "e", "o">>, <<"l", "e", "o", "n">>>>>>,
       <<<<"l", "e", "o", "n", "a", "r", "d", "o", " ", "d", "i", "c", "a", "p", "r", "i", "o">>, <<<<"l", "e", "o", " ", "d", "i", "c", "a", "p", "r", "i", "o">>, <<"l", "e", "o", " ", "d">>, <<"l", "e", "o", "n", "a", "r", "d", "o", " ", "d">>>>>>,
       <<<<"a", "l", "e", "x", "a", "n", "d", "e", "r">>, <<<<"a", "l", "e", "x">>, <<"a", "l">>, <<"s", "a", "n", "d", "y">>>>>>,
       <<<<"c", "h", "r", "i", "s", "t", "o", "p", "h", "e", "r">>, <<<<"c", "h", "r", "i", "s">>, <<"k", "i", "t">>>>>>,
       <<<<"e", "l", "i", "z", "a", "b", "e", "t", "h">>, <<<<"l", "i", "z">>, <<"b", "e", "t", "h">>, <<"b", "e", "t", "t", "y">>, <<"e", "l", "i", "z", "a">>>>>>,
       <<<<"w", "i", "l", "l", "i", "a", "m">>, <<<<"w", "i", "l", "l">>, <<"b", "i", "l", "l">>, <<"b", "i", "l", "l", "y">>>>>>,
       <<<<"r", "o", "b", "e", "r", "t">>, <<<<"r", "o", "b">>, <<"b", "o", "b">>, <<"b", "o", "b", "b", "y">>>>>>,
       <<<<"r", "i", "c", "h", "a", "r", "d">>, <<<<"r", "i", "c", "k">>, <<"d", "i", "c", "k">>, <<"r", "i", "c", "h">>>>>>,
       <<<<"m", "i", "c", "h", "a", "e", "l">>, <<<<"m", "i", "k", "e">>, <<"m", "i", "c", "k">>, <<"m", "i", "c", "k", "e", "y">>>>>>,
       <<<<"d", "a", "n", "i", "e", "l">>, <<<<"d", "a", "n">>, <<"d", "a", "n", "n", "y">>>>>>,
       <<<<"a", "n", "t", "h", "o", "n", "y">>, <<<<"t", "o", "n", "y">>, <<"a", "n", "t">>>>>>,
       <<<<"m", "a", "t", "t", "h", "e", "w">>, <<<<"m", "a", "t", "t">>, <<"m", "a", "t", "t", "y">>>>>>,
       <<<<"a", "n", "d", "r", "e", "w">>, <<<<"a", "n", "d", "y">>, <<"d", "r", "e", "w">>>>>>,
       <<<<"j", "o", "s", "e", "p", "h">>, <<<<"j", "o", "e">>, <<"j", "o", "e", "y">>>>>>,
       <<<<"j", "o", "n", "a", "t", "h", "a", "n">>, <<<<"j", "o", "n">>, <<"j", "o", "h", "n", "n", "y">>>>>>,
       <<<<"b", "e", "n", "j", "a", "m", "i", "n">>, <<<<"b", "e", "n">>, <<"b", "e", "n", "n", "y">>>>>>,
       <<<<"n", "i", "c", "h", "o", "l", "a", "s">>, <<<<"n", "i", "c", "k">>, <<"n", "i", "c", "k", "y">>>>>>,
       <<<<"s", "a", "m", "u", "e", "l">>, <<<<"s", "a", "m">>, <<"s", "a", "m", "m", "y">>>>>>,
       <<<<"d", "a", "v", "i", "d">>, <<<<"d", "a", "v", "e">>, <<"d", "a", "v", "y">>>>>>,
       <<<<"t", "h", "o", "m", "a", "s">>, <<<<"t", "o", "m">>, <<"t", "o", "m", "m", "y">>>>>>,
       <<<<"j", "a", "m", "e", "s">>, <<<<"j", "i", "m">>, <<"j", "i", "m", "m", "y">>, <<"j", "a", "m", "i", "e">>>>>>,
       <<<<"j", "o", "h", "n">>, <<<<"j", "o", "h", "n", "n", "y">>, <<"j", "a", "c", "k">>>>>>,
       <<<<"p", "a", "t", "r", "i", "c", "i", "a">>, <<<<"p", "a", "t">>, <<"p", "a", "t", "t", "y">>, <<"t", "r", "i", "s", "h">>>>>>,
       <<<<"j", "e", "n", "n", "i", "f", "e", "r">>, <<<<"j", "e", "n">>, <<"j", "e", "n", "n", "y">>>>>>,
       <<<<"l", "i", "n", "d", "a">>, <<<<"l", "i", "n">>, <<"l", "i", "n", "d", "y">>>>>>,
       <<<<"b", "a", "r", "b", "a", "r", "a">>, <<<<"b", "a", "r", "b">>, <<"b", "a", "r", "b", "i", "e">>>>>>,
       <<<<"s", "u", "s", "a", "n">>, <<<<"s", "u", "e">>, <<"s", "u", "s", "i", "e">>>>>>,
       <<<<"j", "e", "s", "s", "i", "c", "a">>, <<<<"j", "e", "s", "s">>, <<"j", "e", "s", "s", "i", "e">>>>>>,
       <<<<"s", "a", "r", "a", "h">>, <<<<"s", "a", "l", "l", "y">>>>>>,
       <<<<"k", "a", "r", "e", "n">>, <<<<"k", "a", "y">>>>>>,
       <<<<"n", "a", "n", "c", "y">>, <<<<"a", "n", "n">>>>>>,
       <<<<"l", "i", "s", "a">>, <<<<"l", "i", "z">>>>>>,
       <<<<"b", "e", "t", "t", "y">>, <<<<"b", "e", "t", "t", "e">>>>>>,
       <<<<"h", "e", "l", "e", "n">>, <<<<"l", "e", "n", "a">>>>>>,
       <<<<"s", "a", "n", "d", "r", "a">>, <<<<"s", "a", "n", "d", "i">>>>>>,
       <<<<"d", "o", "n", "n", "a">>, <<<<"d", "o", "n", "a">>>>>>,
       <<<<"c", "a", "r", "o", "l">>, <<<<"c", "a", "r", "o", "l", "i", "n", "a">>>>>>,
       <<<<"r", "u", "t", "h">>, <<<<"r", "u", "t", "h", "i", "e">>>>>>,
       <<<<"s", "h", "a", "r", "o", "n">>, <<<<"s", "h", "a", "r", "i">>>>>>,
       <<<<"m", "i", "c", "h", "e", "l", "l", "e">>, <<<<"m", "i", "c", "h">>, <<"m", "i", "c", "k", "e", "y">>>>>>,
       <<<<"l", "a", "u", "r", "a">>, <<<<"l", "a", "u", "r", "i", "e">>>>>>,
       <<<<"k", "i", "m", "b", "e", "r", "l", "y">>, <<<<"k", "i", "m">>>>>>,
       <<<<"d", "e", "b", "o", "r", "a", "h">>, <<<<"d", "e", "b">>, <<"d", "e", "b", "b", "i", "e">>>>>>,
       <<<<"d", "o", "r", "o", "t", "h", "y">>, <<<<"d", "o", "t">>, <<"d", "o", "t", "t", "y">>>>>>,
       <<<<"m", "a", "r", "i", "a">>, <<<<"m", "a", "r", "y">>>>>>,
       <<<<"k", "a", "t", "h", "e", "r", "i", "n", "e">>, <<<<"k", "a", "t", "e">>, <<"k", "a", "t", "i", "e">>, <<"k", "a", "t", "h", "y">>, <<"k", "a", "y">>>>>>,
       <<<<"m", "a", "r", "g", "a", "r", "e", "t">>, <<<<"m", "a", "g", "g", "i", "e">>, <<"m", "e", "g">>, <<"p", "e", "g", "g", "y">>>>>>
    >>
SUFFIXES == {<<"j", "r">>, <<"s", "r">>, <<"i", "i">>, <<"i", "i", "i">>, <<"i", "v">>, <<"v">>}
PREFIXES == {<<"m", "r">>, <<"m", "r", "s">>, <<"m", "s">>, <<"m", "i", "s", "s">>, <<"d", "r">>, <<"p", "r", "o", "f">>}

(***************************************************************************)
(* Normalizers                                                             *)
(***************************************************************************)
NameChar(c) == IsLowerAlpha(c) \/ IsDigit(c) \/ c = " " \/ c = "-"

_normalize_name(name) ==
    IF Len(name) = 0 THEN <<>>
    ELSE Join(SelectSeq(Split(SelectSeq(Join(Split(Lower(name))), NameChar)),
                        LAMBDA w : w \notin SUFFIXES /\ w \notin PREFIXES))

IdChar(c) == IsLowerAlpha(c) \/ IsUpper(c) \/ IsDigit(c)

\* the ID without its other characters, in the case it is written in
NormalizeIdKeepCase(id_str) ==
    IF Len(id_str) = 0 THEN <<>> ELSE SelectSeq(id_str, IdChar)

_normalize_id(id_str) ==
    IF Len(id_str) = 0 THEN <<>> ELSE SelectSeq(Lower(id_str), IdChar)

\* the value a normalizer returns for an input it cannot use
None == "None"

DigitVal(c) == Ord(c) - Ord("0")
Number(s) == IF Len(s) = 0 THEN 0
             ELSE LET RECURSIVE Num(_)
                      Num(k) == IF k = 0 THEN 0 ELSE 10 * Num(k - 1) + DigitVal(s[k])
                  IN Num(Len(s))
AllDigits(s) == \A i \in 1..Len(s) : IsDigit(s[i])

IsLeap(y) == (y % 4 = 0 /\ y % 100 # 0) \/ y % 400 = 0
DaysInMonth(y, m) ==
    IF m = 2 THEN (IF IsLeap(y) THEN 29 ELSE 28)
    ELSE IF m \in {4, 6, 9, 11} THEN 30 ELSE 31
ValidDate(y, m, d) == y >= 1 /\ m \in 1..12 /\ d >= 1 /\ d <= DaysInMonth(y, m)

\* parser.parse on the two layouts of the model: YYYY-MM-DD and MM/DD/YYYY
ParseDate(s) ==
    IF Len(s) = 10 /\ s[5] = "-" /\ s[8] = "-"
       /\ AllDigits(SubSeq(s, 1, 4)) /\ AllDigits(SubSeq(s, 6, 7)) /\ AllDigits(SubSeq(s, 9, 10))
    THEN <<Number(SubSeq(s, 1, 4)), Number(SubSeq(s, 6, 7)), Number(SubSeq(s, 9, 10))>>
    ELSE IF Len(s) = 10 /\ s[3] = "/" /\ s[6] = "/"
            /\ AllDigits(SubSeq(s, 1, 2)) /\ AllDigits(SubSeq(s, 4, 5)) /\ AllDigits(SubSeq(s, 7, 10))
         THEN <<Number(SubSeq(s, 7, 10)), Number(SubSeq(s, 1, 2)), Number(SubSeq(s, 4, 5))>>
         ELSE None

\* the decimal digits of a natural number, without padding
RECURSIVE Digits(_)
Digits(n) ==
    IF n < 10 THEN <<Alphabet[Ord("0") + n]>>
    ELSE Append(Digits(n \div 10), Alphabet[Ord("0") + (n % 10)])
TwoDigits(n) == <<Alphabet[Ord("0") + (n \div 10)], Alphabet[Ord("0") + (n % 10)]>>

\* date_obj.strftime('%Y-%m-%d'): the C library writes the year without padding,
\* the month and the day with two digits
Strftime(date_obj) ==
    Digits(date_obj[1]) \o <<"-">> \o TwoDigits(date_obj[2]) \o <<"-">> \o TwoDigits(date_obj[3])

\* the 'YYYY-MM-DD' string of the parsed date, None for a value the parser rejects
_normalize_date(date_str) ==
    LET Checked(date_obj) ==
            IF date_obj = None THEN None
            ELSE IF ValidDate(date_obj[1], date_obj[2], date_obj[3])
                 THEN Strftime(date_obj) ELSE None
    IN IF Len(date_str) = 0 THEN None ELSE Checked(ParseDate(date_str))

\* validate_email(email).normalized: local@domain with a dotted domain, domain lowercased
_normalize_email(email) ==
    LET Parts(local, domain) ==
            IF Len(local) = 0 \/ Contains(local, <<" ">>) \/ Contains(domain, <<" ">>)
               \/ ~Contains(domain, <<".">>) \/ domain[1] = "." \/ domain[Len(domain)] = "."
            THEN None
            ELSE local \o <<"@">> \o domain
        SplitAt(ats) ==
            IF Cardinality(ats) # 1 \/ Len(email) \in ats THEN None
            ELSE Parts(SubSeq(email, 1, (CHOOSE i \in ats : TRUE) - 1),
                       Lower(SubSeq(email, (CHOOSE i \in ats : TRUE) + 1, Len(email))))
    IN IF Len(email) = 0 THEN None
       ELSE SplitAt({i \in 1..Len(email) : email[i] = "@"})

\* phonenumbers: national numbers of ten digits under +1, +44 and +91
ValidNumber(country_code, digits) ==
    /\ Len(digits) = 10
    /\ CASE country_code = <<"1">> -> DigitVal(digits[1]) >= 2 /\ DigitVal(digits[4]) >= 2
         [] country_code = <<"4", "4">> -> digits[1] = "7"
         [] OTHER -> DigitVal(digits[1]) >= 6

_normalize_phone(phone) ==
    LET codes == <<<<"1">>, <<"4", "4">>, <<"9", "1">>>>
        FirstValid(digits, valid) ==
            IF valid = {} THEN None
            ELSE <<"+">> \o codes[CHOOSE k \in valid : \A x \in valid : k <= x] \o digits
        Try(digits) == FirstValid(digits, {k \in 1..Len(codes) : ValidNumber(codes[k], digits)})
    IN IF Len(phone) = 0 THEN None ELSE Try(SelectSeq(phone, IsDigit))

(***************************************************************************)
(* Field scorers                                                           *)
(***************************************************************************)
NicknameHit(q, r) ==
    \E e \in 1..Len(NICKNAMES) : \E n \in 1..Len(NICKNAMES[e][2]) :
        \/ Contains(r, NICKNAMES[e][1]) /\ Contains(q, NICKNAMES[e][2][n])
        \/ Contains(q, NICKNAMES[e][1]) /\ Contains(r, NICKNAMES[e][2][n])

_calculate_nickname_score(query_name, record_name) ==
    IF NicknameHit(Lower(query_name), Lower(record_name)) THEN 95 ELSE 0

HasInitial(words) == \E i \in 1..Len(words) : Len(words[i]) = 1

InitialScoreOf(first_name_score, last_initial_match) ==
    IF first_name_score >= 80 /\ last_initial_match THEN 90 ELSE 0

InitialScoreOfWords(query_words, record_words) ==
    IF Len(query_words) < 2 \/ Len(record_words) < 2 THEN 0
    ELSE IF ~(HasInitial(query_words) \/ HasInitial(record_words)) THEN 0
         ELSE InitialScoreOf(
                  Max2(fuzz_ratio(query_words[1], record_words[1]),
                       _calculate_nickname_score(query_words[1], record_words[1])),
                  LowerChar(query_words[Len(query_words)][1])
                      = LowerChar(record_words[Len(record_words)][1]))

_calculate_name_initial_score(query_name, record_name) ==
    InitialScoreOfWords(Split(query_name), Split(record_name))

HighestOf(scores) == CHOOSE m \in scores : \A x \in scores : x <= m

WordLevelScoreOfWords(query_words, record_words) ==
    IF Len(query_words) = 0 \/ record_words = {} THEN 0
    ELSE SumOfSeq([i \in 1..Len(query_words) |->
             HighestOf({Max2(fuzz_ratio(query_words[i], r_word),
                             _calculate_nickname_score(query_words[i], r_word)) :
                        r_word \in record_words})]) \div Len(query_words)

_calculate_word_level_score(query_name, record_name) ==
    WordLevelScoreOfWords(SortedWords(SeqToSet(Split(query_name))), SeqToSet(Split(record_name)))

NameScoreOf(query_name, record_name) ==
    IF Len(query_name) = 0 \/ Len(record_name) = 0 THEN 0
    ELSE MaxOfSeq(<<fuzz_ratio(query_name, record_name),
                    fuzz_token_sort_ratio(query_name, record_name),
                    fuzz_token_set_ratio(query_name, record_name),
                    fuzz_partial_ratio(query_name, record_name),
                    SequenceMatcherRatio(query_name, record_name),
                    _calculate_nickname_score(query_name, record_name),
                    _calculate_name_initial_score(query_name, record_name),
                    _calculate_word_level_score(query_name, record_name)>>)

_calculate_name_score(query_name_raw, record_name_raw) ==
    NameScoreOf(_normalize_name(query_name_raw), _normalize_name(record_name_raw))

\* date.toordinal(): days since 0001-01-01
DaysBeforeMonth(y, m) ==
    LET RECURSIVE Before(_)
        Before(k) == IF k = 0 THEN 0 ELSE DaysInMonth(y, k) + Before(k - 1)
    IN Before(m - 1)
ToOrdinal(dt) ==
    LET y == dt[1] - 1
    IN 365 * y + (y \div 4) - (y \div 100) + (y \div 400) + DaysBeforeMonth(dt[1], dt[2]) + dt[3]

Abs(n) == IF n < 0 THEN -n ELSE n

\* datetime.strptime(s, '%Y-%m-%d') as <<year, month, day>>: %Y takes four digits,
\* None stands for the ValueError of a string that does not match
Strptime(s) ==
    IF Len(s) = 10 /\ s[5] = "-" /\ s[8] = "-"
       /\ AllDigits(SubSeq(s, 1, 4)) /\ AllDigits(SubSeq(s, 6, 7)) /\ AllDigits(SubSeq(s, 9, 10))
    THEN <<Number(SubSeq(s, 1, 4)), Number(SubSeq(s, 6, 7)), Number(SubSeq(s, 9, 10))>>
    ELSE None

_calculate_date_score(query_date_raw, record_date_raw) ==
    LET Tier(date_diff) ==
            IF date_diff = 0 THEN 100
            ELSE IF date_diff <= 1 THEN 90
            ELSE IF date_diff <= 7 THEN 80
            ELSE IF date_diff <= 30 THEN 60
            ELSE IF date_diff <= 365 THEN 40
            ELSE 0
        Parsed(query_dt, record_dt) ==
            IF query_dt = None \/ record_dt = None THEN 0
            ELSE Tier(Abs(ToOrdinal(query_dt) - ToOrdinal(record_dt)))
        Score(query_date, record_date) ==
            IF query_date = None \/ record_date = None THEN 0
            ELSE IF query_date = record_date THEN 100
                 ELSE Parsed(Strptime(query_date), Strptime(record_date))
    IN Score(_normalize_date(query_date_raw), _normalize_date(record_date_raw))

_calculate_id_score(query_id_raw, record_id_raw) ==
    LET Score(query_id, record_id) ==
            IF Len(query_id) = 0 \/ Len(record_id) = 0 THEN 0
            ELSE IF query_id = record_id THEN 100
                 ELSE MaxOfSeq(<<fuzz_ratio(query_id, record_id),
                                 fuzz_partial_ratio(query_id, record_id),
                                 fuzz_token_sort_ratio(query_id, record_id),
                                 IF Len(query_id) = Len(record_id)
                                 THEN SequenceMatcherRatio(query_id, record_id) ELSE 0>>)
    IN Score(_normalize_id(query_id_raw), _normalize_id(record_id_raw))

_calculate_email_score(query_email_raw, record_email_raw) ==
    LET at(e) == CHOOSE i \in 1..Len(e) : e[i] = "@"
        local(e) == SubSeq(e, 1, at(e) - 1)
        domain(e) == SubSeq(e, at(e) + 1, Len(e))
        Score(query_email, record_email) ==
            IF query_email = None \/ record_email = None THEN 0
            ELSE IF query_email = record_email THEN 100
                 ELSE (4 * fuzz_ratio(local(query_email), local(record_email))
                       + 6 * fuzz_ratio(domain(query_email), domain(record_email))) \div 10
    IN Score(_normalize_email(query_email_raw), _normalize_email(record_email_raw))

_calculate_phone_score(query_phone_raw, record_phone_raw) ==
    LET last7(p) == SubSeq(p, Len(p) - 6, Len(p))
        Score(query_phone, record_phone) ==
            IF query_phone = None \/ record_phone = None THEN 0
            ELSE IF query_phone = record_phone THEN 100
                 ELSE MaxOfSeq(<<fuzz_ratio(query_phone, record_phone),
                                 fuzz_partial_ratio(query_phone, record_phone),
                                 IF Len(query_phone) >= 7 /\ Len(record_phone) >= 7
                                    /\ last7(query_phone) = last7(record_phone)
                                 THEN 90 ELSE 0>>)
    IN Score(_normalize_phone(query_phone_raw), _normalize_phone(record_phone_raw))

(***************************************************************************)
(* Python dicts: insertion-ordered sequences of <<key, value>> pairs       *)
(***************************************************************************)
DictKeys(d) == [i \in 1..Len(d) |-> d[i][1]]
DictHas(d, key) == \E i \in 1..Len(d) : d[i][1] = key
DictGet(d, key) == d[CHOOSE i \in 1..Len(d) : d[i][1] = key][2]
DictGetOr(d, key, default) == IF DictHas(d, key) THEN DictGet(d, key) ELSE default
DictSet(d, key, val) ==
    IF DictHas(d, key)
    THEN [i \in 1..Len(d) |-> IF d[i][1] = key THEN <<key, val>> ELSE d[i]]
    ELSE Append(d, <<key, val>>)
DictPop(d, key) == SelectSeq(d, LAMBDA entry : entry[1] # key)

(***************************************************************************)
(* Column names.  A column name is a string; its characters are needed for *)
(* the substring tests of the heuristic column search.                     *)
(***************************************************************************)
ColumnChars ==
    [customer_id |-> <<"c", "u", "s", "t", "o", "m", "e", "r", "_", "i", "d">>,
     national_id |-> <<"n", "a", "t", "i", "o", "n", "a", "l", "_", "i", "d">>,
     full_name   |-> <<"f", "u", "l", "l", "_", "n", "a", "m", "e">>,
     source_name |-> <<"s", "o", "u", "r", "c", "e", "_", "n", "a", "m", "e">>,
     dob         |-> <<"d", "o", "b">>,
     birth_date  |-> <<"b", "i", "r", "t", "h", "_", "d", "a", "t", "e">>,
     email       |-> <<"e", "m", "a", "i", "l">>,
     phone       |-> <<"p", "h", "o", "n", "e">>,
     sources     |-> <<"s", "o", "u", "r", "c", "e", "s">>,
     note        |-> <<"n", "o", "t", "e">>]

\* a column label that is not a str: the integer 0, the label a frame built without
\* column names gives its first column
IntLabel0 == "int(0)"
IsStrLabel(col) == col # IntLabel0

\* the terms searched for, as characters
TermChars ==
    [name |-> <<"n", "a", "m", "e">>, id |-> <<"i", "d">>, birth |-> <<"b", "i", "r", "t", "h">>,
     date_of_birth |-> <<"d", "a", "t", "e", "_", "o", "f", "_", "b", "i", "r", "t", "h">>,
     mobile |-> <<"m", "o", "b", "i", "l", "e">>,
     telephone |-> <<"t", "e", "l", "e", "p", "h", "o", "n", "e">>]
TermOf(t) == IF t \in DOMAIN TermChars THEN TermChars[t] ELSE ColumnChars[t]
\* any(term in col.lower() for term in terms)
ColumnContains(col, terms) ==
    \E t \in 1..Len(terms) : Contains(Lower(ColumnChars[col]), TermOf(terms[t]))

(***************************************************************************)
(* Schema mappings                                                         *)
(***************************************************************************)
\* _get_field_mapping: the source columns mapped to a unified field, in mapping order
_get_field_mapping(mappings_of, source_name, unified_field) ==
    LET Mapped(fm) == DictKeys(SelectSeq(fm, LAMBDA entry : entry[2].unified_field = unified_field))
        OfMapping(mapping) ==
            IF Len(DictGetOr(mapping, "field_mappings", <<>>)) > 0
            THEN Mapped(DictGet(mapping, "field_mappings"))
            ELSE Mapped(DictGetOr(mapping, "mappings", <<>>))
    IN OfMapping(DictGetOr(mappings_of, source_name, <<>>))

(***************************************************************************)
(* Match aggregator                                                        *)
(***************************************************************************)
\* str.strip()
RECURSIVE LStrip(_)
LStrip(s) == IF Len(s) > 0 /\ s[1] = " " THEN LStrip(Tail(s)) ELSE s
RECURSIVE RStrip(_)
RStrip(s) == IF Len(s) > 0 /\ s[Len(s)] = " " THEN RStrip(SubSeq(s, 1, Len(s) - 1)) ELSE s
Strip(s) == RStrip(LStrip(s))

InSeq(x, s) == \E i \in 1..Len(s) : s[i] = x

\* the heuristic column search for a field the mapping resolves to no column of the record
HeuristicColumns(field, record) ==
    LET NoSourceName(col) == ~ColumnContains(col, <<"source_name">>)
        terms == [full_name |-> <<"full_name", "name">>,
                  national_id |-> <<"id", "customer_id", "national_id">>,
                  dob |-> <<"dob", "birth", "date_of_birth">>,
                  email |-> <<"email">>,
                  phone |-> <<"phone", "mobile", "telephone">>]
    IN IF field \notin DOMAIN terms THEN <<>>
       ELSE SelectSeq(DictKeys(record),
                      LAMBDA col : /\ ColumnContains(col, terms[field])
                                   /\ field \in {"full_name", "national_id"} => NoSourceName(col))

\* col.lower() raises AttributeError for a label that is not a str: the heuristic
\* search of a field raises when the record has such a column
HeuristicRaises(field, record) ==
    /\ field \in {"full_name", "national_id", "dob", "email", "phone"}
    /\ \E i \in 1..Len(record) : ~IsStrLabel(record[i][1])

\* the mapped columns the record has, with no fallback
ResolveMappedOnly(mappings_of, field, record, source_name) ==
    SelectSeq(_get_field_mapping(mappings_of, source_name, field),
              LAMBDA sf : DictHas(record, sf))

\* the source columns a query field is scored against (empty: the field is skipped)
ResolveSourceFields(mappings_of, field, record, source_name) ==
    LET Fallback(source_fields, heuristic) ==
            IF Len(heuristic) > 0 THEN heuristic ELSE source_fields
        Resolve(source_fields, existing_source_fields) ==
            IF Len(existing_source_fields) > 0 THEN existing_source_fields
            ELSE IF DictHas(record, field) THEN <<field>>
                 ELSE Fallback(source_fields, HeuristicColumns(field, record))
        Existing(source_fields) ==
            Resolve(source_fields, SelectSeq(source_fields, LAMBDA sf : DictHas(record, sf)))
    IN Existing(_get_field_mapping(mappings_of, source_name, field))

\* the distinct non-empty stripped values of the name columns, in column order
RECURSIVE NameParts(_, _, _)
NameParts(source_fields, record, name_parts) ==
    IF Len(source_fields) = 0 THEN name_parts
    ELSE LET name_col == Head(source_fields)
             name_part == IF DictHas(record, name_col) THEN Strip(DictGet(record, name_col)) ELSE <<>>
         IN NameParts(Tail(source_fields), record,
                      IF Len(name_part) > 0 /\ ~InSeq(name_part, name_parts)
                      THEN Append(name_parts, name_part) ELSE name_parts)

\* a local variable that is not bound yet
Unset == -1

\* the full_name branch of the loop body: the combined score of the joined name parts
\* (name_scores[1]) and the individual score of the column (name_scores[2])
CombineNameScores(source_field, source_fields, name_parts, name_scores, score, after_combined) ==
    IF after_combined = Unset THEN name_scores[2]
    ELSE Max2(after_combined, name_scores[2])

NameColumnScore(source_field, source_fields, name_parts, name_scores, score) ==
    CombineNameScores(source_field, source_fields, name_parts, name_scores, score,
        IF Contains(ColumnChars[source_field], ColumnChars["full_name"])
           /\ Len(source_fields) > 1 /\ Len(name_parts) > 1
        THEN (IF score = Unset THEN name_scores[1] ELSE Max2(score, name_scores[1]))
        ELSE score)

NameColumnScores(val, source_field, source_fields, name_parts, record_value, score) ==
    NameColumnScore(source_field, source_fields, name_parts,
        [k \in 1..2 |-> _calculate_name_score(val, IF k = 1 THEN Join(name_parts)
                                                   ELSE record_value)],
        score)

ScoreColumnValue(field, val, source_field, source_fields, record, record_value, score) ==
    CASE field = "national_id" -> _calculate_id_score(val, record_value)
      [] field = "full_name" ->
             NameColumnScores(val, source_field, source_fields,
                              NameParts(source_fields, record, <<>>), record_value, score)
      [] field = "dob" -> _calculate_date_score(val, record_value)
      [] field = "email" -> _calculate_email_score(val, record_value)
      [] field = "phone" -> _calculate_phone_score(val, record_value)
      [] OTHER -> fuzz_ratio(Lower(val), Lower(record_value))

\* the body of the loop over the source fields: the value the local variable `score` gets.
\* `score` is Unset while the function has not assigned it yet; the full_name branch
\* reads it ('score' in locals()), every other branch overwrites it.
ScoreOneColumn(field, val, source_field, source_fields, record, score) ==
    ScoreColumnValue(field, val, source_field, source_fields, record,
                     DictGet(record, source_field), score)

\* the loop over the source fields of one query field: the locals field_score and score
RECURSIVE ScoreColumns(_, _, _, _, _, _, _)
ScoreColumns(field, val, source_fields, i, record, field_score, score) ==
    LET Scored(new_score) ==
            ScoreColumns(field, val, source_fields, i + 1, record,
                         Max2(field_score, new_score), new_score)
    IN IF field_score >= 0 /\ score >= Unset /\ i > Len(source_fields)
       THEN [field_score |-> field_score, score |-> score]
       ELSE IF ~DictHas(record, source_fields[i])
            THEN ScoreColumns(field, val, source_fields, i + 1, record, field_score, score)
            ELSE Scored(ScoreOneColumn(field, val, source_fields[i], source_fields, record, score))

EmptyScores == <<>>

\* the store without the test of field_score
StoreFieldScoreAlways(field, field_scores, scored) ==
    [field_scores |-> (field :> scored.field_score) @@ field_scores,
     score |-> scored.score]

\* field_scores[field] = field_score, only when field_score > 0
StoreFieldScore(field, field_scores, scored) ==
    [field_scores |-> IF scored.field_score > 0
                      THEN (field :> scored.field_score) @@ field_scores
                      ELSE field_scores,
     score |-> scored.score]

ScoreSourceFields(field, val, record, source_fields, field_scores, score) ==
    IF Len(source_fields) = 0
    THEN [field_scores |-> field_scores, score |-> score]
    ELSE StoreFieldScore(field, field_scores,
                         ScoreColumns(field, val, source_fields, 1, record, 0, score))

ScoreQueryField(mappings_of, field, val, record, source_name, field_scores, score) ==
    IF field \notin DOMAIN WeightHundredths
    THEN [field_scores |-> field_scores, score |-> score]
    ELSE ScoreSourceFields(field, val, record,
                           ResolveSourceFields(mappings_of, field, record, source_name),
                           field_scores, score)

\* the loop over the query fields: the field_scores dict
RECURSIVE ScoreQueryFields(_, _, _, _, _, _)
ScoreQueryFields(mappings_of, query, i, record, source_name, acc) ==
    IF acc.score >= Unset /\ i > Len(query) THEN acc.field_scores
    ELSE ScoreQueryFields(mappings_of, query, i + 1, record, source_name,
             ScoreQueryField(mappings_of, query[i][1], query[i][2], record, source_name,
                             acc.field_scores, acc.score))

\* the fields of field_scores in insertion (query) order
ScoredFields(query, field_scores) ==
    SelectSeq(DictKeys(query), LAMBDA f : f \in DOMAIN field_scores)

\* the loop accumulating total_weight and weighted_sum over field_scores.items()
RECURSIVE WeightedSums(_, _, _, _)
WeightedSums(fields, field_scores, total_weight, weighted_sum) ==
    LET Add(weight) ==
            WeightedSums(Tail(fields), field_scores,
                         FloatAdd(total_weight, weight),
                         FloatAdd(weighted_sum, FloatMul(FloatFromInt(field_scores[Head(fields)]), weight)))
    IN IF Len(total_weight.m) >= 0 /\ Len(weighted_sum.m) >= 0 /\ Len(fields) = 0
       THEN [weighted_sum |-> weighted_sum, total_weight |-> total_weight]
       ELSE Add(MATCH_WEIGHTS[Head(fields)])

\* weighted_sum / total_weight if total_weight > 0 else 0
WeightedAverage(sums) ==
    IF FloatCmp(sums.total_weight, FloatZero) > 0
    THEN FloatDiv(sums.weighted_sum, sums.total_weight) ELSE FloatZero

MatchScoreOfFields(query, field_scores) ==
    IF DOMAIN field_scores = {}
    THEN [match_score |-> FloatZero, field_scores |-> field_scores]
    ELSE [match_score |-> WeightedAverage(WeightedSums(ScoredFields(query, field_scores),
                                                       field_scores, FloatZero, FloatZero)),
          field_scores |-> field_scores]

\* the exception _calculate_match_score leaves with
Raised == "AttributeError"

\* _calculate_match_score raises: some query field with a weight resolves to no mapped
\* column of the record, is no column of the record itself, and the heuristic search raises
ScoringRaises(mappings_of, query, record, source_name) ==
    \E i \in 1..Len(query) :
        /\ query[i][1] \in DOMAIN WeightHundredths
        /\ \A sf \in SeqToSet(_get_field_mapping(mappings_of, source_name, query[i][1])) :
               ~DictHas(record, sf)
        /\ ~DictHas(record, query[i][1])
        /\ HeuristicRaises(query[i][1], record)

\* _calculate_match_score: the overall score and the field scores of one record
_calculate_match_score(mappings_of, query, record, source_name) ==
    IF ScoringRaises(mappings_of, query, record, source_name) THEN Raised
    ELSE MatchScoreOfFields(query,
             ScoreQueryFields(mappings_of, query, 1, record, source_name,
                              [field_scores |-> EmptyScores, score |-> Unset]))

CountOver(field_scores, threshold) ==
    Cardinality({f \in DOMAIN field_scores : field_scores[f] >= threshold})

\* _is_strong_match without the perfect-ID rule
StrongWithoutIdRule(field_scores) ==
    LET Has(f) == f \in DOMAIN field_scores
    IN \/ /\ Has("full_name") /\ Has("dob")
          /\ \/ field_scores["full_name"] >= 85 /\ field_scores["dob"] >= 90
             \/ field_scores["full_name"] >= 95 /\ field_scores["dob"] >= 80
             \/ field_scores["dob"] >= 100 /\ field_scores["full_name"] >= 80
       \/ /\ Has("email") /\ field_scores["email"] >= 98
          /\ \/ Has("full_name") /\ field_scores["full_name"] >= 75
             \/ Has("dob") /\ field_scores["dob"] >= 85
       \/ CountOver(field_scores, 85) >= 3
       \/ CountOver(field_scores, 95) >= 2

\* _is_strong_match with an e-mail score of 98 strong on its own
StrongOnEmailAlone(field_scores) ==
    \/ StrongWithoutIdRule(field_scores)
    \/ "national_id" \in DOMAIN field_scores /\ field_scores["national_id"] = 100
    \/ "email" \in DOMAIN field_scores /\ field_scores["email"] >= 98

\* _is_strong_match
_is_strong_match(field_scores) ==
    LET Has(f) == f \in DOMAIN field_scores
    IN \/ Has("national_id") /\ field_scores["national_id"] = 100
       \/ /\ Has("full_name") /\ Has("dob")
          /\ LET name_score == field_scores["full_name"]
                 date_score == field_scores["dob"]
             IN \/ name_score >= 85 /\ date_score >= 90
                \/ name_score >= 95 /\ date_score >= 80
                \/ date_score >= 100 /\ name_score >= 80
       \/ /\ Has("email") /\ field_scores["email"] >= 98
          /\ \/ Has("full_name") /\ field_scores["full_name"] >= 75
             \/ Has("dob") /\ field_scores["dob"] >= 85
       \/ CountOver(field_scores, 85) >= 3
       \/ CountOver(field_scores, 95) >= 2

\* query.get(field) is a non-empty string
QueryHas(query, field) == DictHas(query, field) /\ Len(DictGet(query, field)) > 0

\* the gate without the test that national_id or full_name reaches its threshold
GateWithoutRequiredField(field_scores, query) ==
    LET Score(f) == IF f \in DOMAIN field_scores THEN field_scores[f] ELSE 0
        low_score_count == Cardinality({f \in DOMAIN field_scores : field_scores[f] < 50})
        too_many_low == 2 * low_score_count > Cardinality(DOMAIN field_scores)
    IN /\ \E f \in DOMAIN field_scores : field_scores[f] >= MIN_SCORES.weak_match
       /\ IF QueryHas(query, "full_name") /\ QueryHas(query, "dob")
          THEN \/ Score("dob") >= 100 /\ Score("full_name") >= 60
               \/ Score("full_name") >= 90 /\ Score("dob") >= 60
               \/ Score("full_name") >= 65 /\ Score("dob") >= 65 /\ ~too_many_low
          ELSE ~too_many_low

\* _meets_minimum_requirements
_meets_minimum_requirements(field_scores, query) ==
    LET Has(f) == f \in DOMAIN field_scores
        Score(f) == IF Has(f) THEN field_scores[f] ELSE 0
        max_score == IF DOMAIN field_scores = {} THEN 0
                     ELSE CHOOSE m \in {field_scores[f] : f \in DOMAIN field_scores} :
                              \A f \in DOMAIN field_scores : field_scores[f] <= m
        has_required_field ==
            \E k \in 1..Len(REQUIRED_MATCH_FIELDS) :
                /\ Has(REQUIRED_MATCH_FIELDS[k])
                /\ field_scores[REQUIRED_MATCH_FIELDS[k]] >= FUZZY_THRESHOLDS[REQUIRED_MATCH_FIELDS[k]]
        name_score == Score("full_name")
        dob_score == Score("dob")
        low_score_count == Cardinality({f \in DOMAIN field_scores : field_scores[f] < 50})
        total_scores == Cardinality(DOMAIN field_scores)
        too_many_low == total_scores > 0 /\ 2 * low_score_count > total_scores
    IN IF max_score < MIN_SCORES.weak_match THEN FALSE
       ELSE IF ~has_required_field THEN FALSE
       ELSE IF QueryHas(query, "full_name") /\ QueryHas(query, "dob")
            THEN IF dob_score >= 100 /\ name_score >= 60 THEN TRUE
                 ELSE IF name_score >= 90 /\ dob_score >= 60 THEN TRUE
                 ELSE IF name_score < 65 \/ dob_score < 65 THEN FALSE
                 ELSE ~too_many_low
            ELSE ~too_many_low

(***************************************************************************)
(* The values the queries and the rows of the model are built from         *)
(***************************************************************************)
LeonardoDiCaprio == <<"L", "e", "o", "n", "a", "r", "d", "o", " ", "D", "i", "C", "a", "p", "r", "i", "o">>
LeoDiCaprio == <<"L", "e", "o", " ", "D", "i", "C", "a", "p", "r", "i", "o">>
LeonardDiCaprio == <<"L", "e", "o", "n", "a", "r", "d", " ", "D", "i", "C", "a", "p", "r", "i", "o">>
LDiCaprio == <<"L", " ", "D", "i", "C", "a", "p", "r", "i", "o">>
KateWinslet == <<"K", "a", "t", "e", " ", "W", "i", "n", "s", "l", "e", "t">>
Bank001 == <<"B", "A", "N", "K", "0", "0", "1">>
Bank001Dashed == <<"b", "a", "n", "k", "-", "0", "0", "1">>
Bank002 == <<"B", "A", "N", "K", "0", "0", "2">>
Crm7 == <<"C", "R", "M", "7">>
Date1974_11_11 == <<"1", "9", "7", "4", "-", "1", "1", "-", "1", "1">>
Date1974_11_11_US == <<"1", "1", "/", "1", "1", "/", "1", "9", "7", "4">>
Date1974_11_25 == <<"1", "9", "7", "4", "-", "1", "1", "-", "2", "5">>
Date1974_11_14 == <<"1", "9", "7", "4", "-", "1", "1", "-", "1", "4">>
Date1980_01_01 == <<"1", "9", "8", "0", "-", "0", "1", "-", "0", "1">>
EmailLeo == <<"l", "e", "o", "@", "m", "a", "i", "l", ".", "c", "o", "m">>
EmailLd == <<"l", "d", "@", "m", "a", "i", "l", ".", "c", "o", "m">>
PhoneLeo == <<"4", "1", "5", "-", "5", "5", "5", "-", "2", "6", "7", "1">>
Web == <<"w", "e", "b">>
Blank == <<>>

\* more raw values for the field scorers called on their own
AnnaMaria == <<"A", "n", "n", "a", " ", "M", "a", "r", "i", "a">>
Ana == <<"A", "n", "a">>
DrOnly == <<"D", "r", ".">>
MrLeoDiCaprioJr ==
    <<"M", "r", ".", " ", "L", "e", "o", " ", "D", "i", "C", "a", "p", "r", "i", "o", " ", "J", "r">>
Date1974_11_12 == <<"1", "9", "7", "4", "-", "1", "1", "-", "1", "2">>
Date1974_11_13 == <<"1", "9", "7", "4", "-", "1", "1", "-", "1", "3">>
Date1974_11_18 == <<"1", "9", "7", "4", "-", "1", "1", "-", "1", "8">>
Date1974_11_19 == <<"1", "9", "7", "4", "-", "1", "1", "-", "1", "9">>
Date1974_12_11 == <<"1", "9", "7", "4", "-", "1", "2", "-", "1", "1">>
Date1974_12_12 == <<"1", "9", "7", "4", "-", "1", "2", "-", "1", "2">>
Date1975_11_11 == <<"1", "9", "7", "5", "-", "1", "1", "-", "1", "1">>
Date1975_11_12 == <<"1", "9", "7", "5", "-", "1", "1", "-", "1", "2">>
Date1975_12_16 == <<"1", "9", "7", "5", "-", "1", "2", "-", "1", "6">>
Date1974_13_01 == <<"1", "9", "7", "4", "-", "1", "3", "-", "0", "1">>
Date0999_01_01 == <<"0", "9", "9", "9", "-", "0", "1", "-", "0", "1">>
Date0999_01_02 == <<"0", "9", "9", "9", "-", "0", "1", "-", "0", "2">>
Bank001Spaced == <<"B", "a", "n", "k", " ", "0", "0", "1", ".">>
Dashes == <<"-", "-">>
NoAtSign == <<"l", "e", "o">>
EmailLeoUpper == <<"l", "e", "o", "@", "M", "A", "I", "L", ".", "c", "o", "m">>
PhoneLeoSpaced == <<"1", " ", "4", "1", "5", " ", "5", "5", "5", " ", "2", "6", "7", "1">>
PhoneShort == <<"5", "5", "5", "-", "2", "6", "7", "1">>
PhoneOther == <<"4", "1", "5", "5", "5", "5", "2", "6", "7", "2">>

(***************************************************************************)
(* Schema mapping files                                                    *)
(***************************************************************************)
\* one pass of _load_schema_mappings over the files a glob pattern selects;
\* a file is [legacy_name, mapping]: every mapping file matches "*_map.json",
\* a file with legacy_name also matches "*_schema_map.json"
RECURSIVE LoadMappingFiles(_, _, _)
LoadMappingFiles(mapping_files, legacy_pass, loaded) ==
    IF Len(mapping_files) = 0 THEN loaded
    ELSE LET Load(mapping_file, mapping) ==
                 IF legacy_pass /\ ~mapping_file.legacy_name THEN loaded
                 ELSE IF ~DictHas(mapping, "source_name") THEN loaded
                      ELSE IF legacy_pass /\ DictHas(loaded, DictGet(mapping, "source_name"))
                           THEN loaded
                           ELSE DictSet(loaded, DictGet(mapping, "source_name"), mapping)
         IN LoadMappingFiles(Tail(mapping_files), legacy_pass,
                             Load(Head(mapping_files), Head(mapping_files).mapping))

\* _load_schema_mappings: the enhanced pass, then the legacy pass
_load_schema_mappings(mapping_files) ==
    LoadMappingFiles(mapping_files, TRUE, LoadMappingFiles(mapping_files, FALSE, <<>>))

(***************************************************************************)
(* Processed data files.  A file is [stem, columns, records]; a record is  *)
(* the dict of one row, NaN already replaced by the empty string.          *)
(***************************************************************************)
\* load_processed_data: source name -> frame, for the files that have a full_name column
RECURSIVE load_processed_data(_)
load_processed_data(data_dir) ==
    IF Len(data_dir) = 0 THEN <<>>
    ELSE LET Load(file_path, data) ==
                 IF ~InSeq("full_name", file_path.columns) THEN data
                 ELSE DictSet(data, file_path.stem,
                              [columns |-> file_path.columns, records |-> file_path.records])
         IN Load(data_dir[Len(data_dir)],
                 load_processed_data(SubSeq(data_dir, 1, Len(data_dir) - 1)))

(***************************************************************************)
(* list.sort(key=..., reverse=True): descending, equal keys keep their     *)
(* original order.  A key is <<is_strong_match, match_score,               *)
(* meets_requirements>> with the booleans as 0 and 1.                      *)
(***************************************************************************)
Bool01(b) == IF b THEN 1 ELSE 0

\* key_x < key_y as Python compares tuples
KeyLess(x, y) ==
    \/ x[1] < y[1]
    \/ x[1] = y[1] /\ FloatCmp(x[2], y[2]) < 0
    \/ x[1] = y[1] /\ FloatCmp(x[2], y[2]) = 0 /\ x[3] < y[3]

RECURSIVE SortReverseFrom(_, _, _)
SortReverseFrom(keyed, i, sorted) ==
    IF Len(sorted) >= 0 /\ i > Len(keyed) THEN sorted
    ELSE LET Insert(x) ==
                 SortReverseFrom(keyed, i + 1,
                     SelectSeq(sorted, LAMBDA e : ~KeyLess(e.key, x.key))
                     \o <<x>> \o SelectSeq(sorted, LAMBDA e : KeyLess(e.key, x.key)))
         IN Insert(keyed[i])

\* the items of a list of [key, item] in sorted order
SortReverse(keyed) ==
    LET Items(sorted) == [i \in 1..Len(sorted) |-> sorted[i].item]
    IN Items(SortReverseFrom(keyed, 1, <<>>))

(***************************************************************************)
(* find_matches                                                            *)
(***************************************************************************)
\* the acceptance decision without the count of fields scoring at least 75
AcceptWithoutFieldCount(match_score, field_scores, is_strong_match, meets_requirements) ==
    \/ is_strong_match
    \/ "national_id" \in DOMAIN field_scores /\ field_scores["national_id"] = 100
    \/ FloatCmp(match_score, FloatFromInt(MIN_SCORES.good_match)) >= 0 /\ meets_requirements

\* the acceptance decision on the overall score alone
AcceptOnScoreAlone(match_score, field_scores, is_strong_match, meets_requirements) ==
    \/ is_strong_match
    \/ FloatCmp(match_score, FloatFromInt(MIN_SCORES.good_match)) >= 0

\* the acceptance decision of find_matches for one record
AcceptMatch(match_score, field_scores, is_strong_match, meets_requirements) ==
    IF is_strong_match THEN TRUE
    ELSE IF "national_id" \in DOMAIN field_scores /\ field_scores["national_id"] = 100 THEN TRUE
         ELSE IF FloatCmp(match_score, FloatFromInt(MIN_SCORES.good_match)) >= 0 /\ meets_requirements
              THEN CountOver(field_scores, MIN_SCORES.good_match) >= 2
              ELSE FALSE

\* the rows of a bank file and of a crm file
BankRow(customer_id, full_name, dob, email) ==
    << <<"customer_id", customer_id>>, <<"full_name", full_name>>, <<"dob", dob>>, <<"email", email>> >>
CrmRow(full_name, birth_date, national_id, email, phone, sources) ==
    << <<"full_name", full_name>>, <<"birth_date", birth_date>>, <<"national_id", national_id>>,
       <<"email", email>>, <<"phone", phone>>, <<"sources", sources>> >>

BankColumns == <<"customer_id", "full_name", "dob", "email">>
CrmColumns == <<"full_name", "birth_date", "national_id", "email", "phone", "sources">>
NotesColumns == <<"note">>

BankRows ==
    {BankRow(Bank001, LeoDiCaprio, Date1974_11_11, EmailLeo),
     BankRow(Bank001Dashed, LeoDiCaprio, Date1974_11_11, Blank),
     BankRow(Bank002, LeonardDiCaprio, Date1974_11_25, EmailLeo),
     BankRow(Crm7, LDiCaprio, Date1974_11_14, EmailLd)}
CrmRows ==
    {CrmRow(LeoDiCaprio, Date1974_11_11_US, Bank001, EmailLeo, PhoneLeo, Web),
     CrmRow(KateWinslet, Date1980_01_01, Bank001Dashed, Blank, Blank, Web)}
NotesRows == {<< <<"note", Web>> >>}

\* a bank row with the queried ID and another person's name and date of birth
BankRowKate == BankRow(Bank001, KateWinslet, Date1980_01_01, Blank)
\* a bank row whose name is a title alone: _normalize_name empties it
BankRowNoName == BankRow(Bank001, DrOnly, Date1974_11_11, Blank)
\* a row with a source_name column and no column of the unified schema
SourceNameRow == << <<"source_name", Web>>, <<"note", Web>> >>
\* a row with a name and no other column of the unified schema
NameOnlyRow == << <<"full_name", LeoDiCaprio>>, <<"note", Web>> >>
\* a row of a frame whose second column has no name
UnlabelledRow == << <<"full_name", LeoDiCaprio>>, <<IntLabel0, Bank001>> >>

\* the queries: the one the API builds (full_name, dob, national_id), one with a
\* phone number, one with a name only
QueryApi ==
    << <<"full_name", LeonardoDiCaprio>>, <<"dob", Date1974_11_11>>, <<"national_id", Bank001>> >>
QueryWithPhone ==
    << <<"full_name", LeoDiCaprio>>, <<"phone", PhoneLeo>>, <<"dob", Date1974_11_11>>,
       <<"national_id", Bank001>> >>
QueryNameOnly == << <<"full_name", KateWinslet>> >>
QueryPool == {QueryApi, QueryWithPhone, QueryNameOnly}

\* the schema mappings directory: an enhanced mapping file for the bank source
FieldMapping(unified_field) == [unified_field |-> unified_field, confidence |-> 90]
MappingFiles ==
    << [legacy_name |-> FALSE,
        mapping |-> << <<"source_name", "bank">>,
                       <<"field_mappings", << <<"customer_id", FieldMapping("national_id")>>,
                                              <<"full_name", FieldMapping("full_name")>>,
                                              <<"dob", FieldMapping("dob")>>,
                                              <<"email", FieldMapping("email")>> >> >> >>] >>
LoadedMappings == _load_schema_mappings(MappingFiles)

\* the largest number of rows in the processed data directory
MaxRows == 4
\* the largest clock reading
MaxClock == 4

\* the lists of n rows of a pool
RowLists(pool, n) == [1..n -> pool]

\* the directory listings: the files that exist, in one glob order or the other
Listing(bank, crm, notes, reversed) ==
    LET Ordered(files) ==
            IF reversed THEN [i \in 1..Len(files) |-> files[Len(files) + 1 - i]] ELSE files
    IN Ordered((IF Len(bank) > 0
                THEN <<[stem |-> "bank", columns |-> BankColumns, records |-> bank]>> ELSE <<>>)
               \o (IF Len(crm) > 0
                   THEN <<[stem |-> "crm", columns |-> CrmColumns, records |-> crm]>> ELSE <<>>)
               \o (IF Len(notes) > 0
                   THEN <<[stem |-> "notes", columns |-> NotesColumns, records |-> notes]>>
                   ELSE <<>>))

Corpora ==
    UNION {UNION {UNION {{Listing(bank, crm, notes, reversed) :
                              bank \in RowLists(BankRows, b), crm \in RowLists(CrmRows, c),
                              notes \in RowLists(NotesRows, n), reversed \in BOOLEAN} :
                         n \in 0..(IF b + c < MaxRows THEN 1 ELSE 0)} :
                  c \in 0..(MaxRows - b)} :
           b \in 0..MaxRows}

\* the aggregator outputs for the queries and rows above, computed once
ScoreKeys ==
    {<<query, record, "bank">> : query \in QueryPool, record \in BankRows}
    \cup {<<query, record, "crm">> : query \in QueryPool, record \in CrmRows}
    \cup {<<QueryApi, BankRowKate, "bank">>}
RECURSIVE ScoreTable(_)
ScoreTableWith(keys, key) ==
    (key :> _calculate_match_score(LoadedMappings, key[1], key[2], key[3]))
    @@ ScoreTable(keys \ {key})
ScoreTable(keys) ==
    IF keys = {} THEN <<>> ELSE ScoreTableWith(keys, CHOOSE k \in keys : TRUE)
MatchScores == ScoreTable(ScoreKeys)

\* _calculate_match_score, looked up where it has been computed
MatchScoreOf(mappings_of, query, record, source_name) ==
    IF mappings_of = LoadedMappings /\ <<query, record, source_name>> \in ScoreKeys
    THEN MatchScores[<<query, record, source_name>>]
    ELSE _calculate_match_score(mappings_of, query, record, source_name)

\* the record annotated with the aggregator outputs, and whether it is accepted
DecideMatch(record, match_score, field_scores, is_strong_match, meets_requirements) ==
    [accept_match |-> AcceptMatch(match_score, field_scores,
                                  is_strong_match, meets_requirements),
     record |-> DictSet(DictSet(DictSet(DictSet(record,
                    "match_score", match_score),
                    "field_scores", field_scores),
                    "is_strong_match", is_strong_match),
                    "meets_requirements", meets_requirements)]

ClassifyMatch(query, record, scored) ==
    DecideMatch(record, scored.match_score, scored.field_scores,
                _is_strong_match(scored.field_scores),
                _meets_minimum_requirements(scored.field_scores, query))

\* the body of the loop over the records of one source
MatchRecord(mappings_of, query, record, source_name) ==
    ClassifyMatch(query, record, MatchScoreOf(mappings_of, query, record, source_name))

\* the loop over the records of one source: the accepted records, annotated, in row order
RECURSIVE SourceMatches(_, _, _, _, _, _)
SourceMatches(mappings_of, query, records, source_name, i, source_matches) ==
    LET Collect(matched) ==
            SourceMatches(mappings_of, query, records, source_name, i + 1,
                          IF matched.accept_match THEN Append(source_matches, matched.record)
                          ELSE source_matches)
    IN IF Len(source_matches) >= 0 /\ i > Len(records) THEN source_matches
       ELSE Collect(MatchRecord(mappings_of, query, records[i], source_name))

\* source_matches sorted by match_score alone
SortSourceMatchesByScore(source_matches) ==
    SortReverse([i \in 1..Len(source_matches) |->
        [key |-> <<0, DictGet(source_matches[i], "match_score"), 0>>,
         item |-> source_matches[i]]])

\* source_matches.sort(key=(is_strong_match, match_score, meets_requirements), reverse=True)
SortSourceMatches(source_matches) ==
    SortReverse([i \in 1..Len(source_matches) |->
        [key |-> <<Bool01(DictGet(source_matches[i], "is_strong_match")),
                   DictGet(source_matches[i], "match_score"),
                   Bool01(DictGetOr(source_matches[i], "meets_requirements", FALSE))>>,
         item |-> source_matches[i]]])

\* a cap of three whatever the number of strong matches
MaxResultsAlwaysThree(strong_count) == 3

\* max_results: every strong match plus two, or three when no match is strong
MaxResults(strong_count) == IF strong_count > 0 THEN strong_count + 2 ELSE 3

\* matches[source_name] = source_matches[:max_results]
LimitMatches(ranked, max_results) ==
    SubSeq(ranked, 1, IF max_results < Len(ranked) THEN max_results ELSE Len(ranked))

CapMatches(ranked) ==
    LimitMatches(ranked,
                 MaxResults(Len(SelectSeq(ranked, LAMBDA m : DictGet(m, "is_strong_match")))))

\* the sorted and capped list of one source
RankSourceMatches(source_matches) == CapMatches(SortSourceMatches(source_matches))

\* if source_matches: sort, cap and store under the source name
StoreSourceMatches(matches, source_name, source_matches) ==
    IF Len(source_matches) > 0
    THEN DictSet(matches, source_name, RankSourceMatches(source_matches))
    ELSE matches

RECURSIVE FindMatchesFrom(_, _, _, _, _)
FindMatchesFrom(mappings_of, query, data, i, matches) ==
    IF Len(matches) >= 0 /\ i > Len(data) THEN matches
    ELSE FindMatchesFrom(mappings_of, query, data, i + 1,
             StoreSourceMatches(matches, data[i][1],
                 SourceMatches(mappings_of, query, data[i][2].records, data[i][1], 1, <<>>)))

\* the scoring of some record of some source raises; nothing in find_matches catches it
FindMatchesRaises(mappings_of, query, data) ==
    \E i \in 1..Len(data) : \E j \in 1..Len(data[i][2].records) :
        ScoringRaises(mappings_of, query, data[i][2].records[j], data[i][1])

\* find_matches: source name -> ranked accepted records, for the sources that have any;
\* Raised when the call is left by the exception of a scoring
find_matches(mappings_of, query, data) ==
    IF FindMatchesRaises(mappings_of, query, data) THEN Raised
    ELSE FindMatchesFrom(mappings_of, query, data, 1, <<>>)

(***************************************************************************)
(* merge_matches                                                           *)
(***************************************************************************)
\* all_records: the per-source lists one after another, in source order
RECURSIVE AllRecords(_)
AllRecords(matches) ==
    IF Len(matches) = 0 THEN <<>> ELSE Head(matches)[2] \o AllRecords(Tail(matches))

\* all_records sorted by match_score alone
SortAllRecordsByScore(all_records) ==
    SortReverse([i \in 1..Len(all_records) |->
        [key |-> <<0, DictGetOr(all_records[i], "match_score", FloatZero), 0>>,
         item |-> all_records[i]]])

\* all_records sorted by the same key, records with equal keys in reverse order
SortAllRecordsLastFirst(all_records) ==
    SortReverse([i \in 1..Len(all_records) |->
        [key |-> <<Bool01(DictGetOr(all_records[Len(all_records) + 1 - i], "is_strong_match", FALSE)),
                   DictGetOr(all_records[Len(all_records) + 1 - i], "match_score", FloatZero), 0>>,
         item |-> all_records[Len(all_records) + 1 - i]]])

\* all_records.sort(key=(is_strong_match, match_score), reverse=True)
SortAllRecords(all_records) ==
    SortReverse([i \in 1..Len(all_records) |->
        [key |-> <<Bool01(DictGetOr(all_records[i], "is_strong_match", FALSE)),
                   DictGetOr(all_records[i], "match_score", FloatZero), 0>>,
         item |-> all_records[i]]])

\* the four internal scoring fields are popped from the copy of the base record
RemoveInternalFields(record) ==
    DictPop(DictPop(DictPop(DictPop(record, "match_score"), "field_scores"),
                    "is_strong_match"), "meets_requirements")

\* the merge with the clock reading added to match_count
MergeIntoClocked(matches, all_records, best, now) ==
    DictSet(DictSet(DictSet(DictSet(
        DictPop(DictPop(DictPop(DictPop(best, "match_score"), "field_scores"),
                        "is_strong_match"), "meets_requirements"),
        "sources", DictKeys(matches)),
        "match_count", Len(all_records) + now),
        "match_quality",
            [is_strong_match |-> DictGetOr(best, "is_strong_match", FALSE),
             overall_score |-> DictGetOr(best, "match_score", FloatZero),
             field_scores |-> DictGetOr(best, "field_scores", EmptyScores)]),
        "merged_at", now)

\* the base record without its internal fields, with the four merge fields set
MergeInto(matches, all_records, best, now) ==
    DictSet(DictSet(DictSet(DictSet(RemoveInternalFields(best),
        "sources", DictKeys(matches)),
        "match_count", Len(all_records)),
        "match_quality",
            [is_strong_match |-> DictGetOr(best, "is_strong_match", FALSE),
             overall_score |-> DictGetOr(best, "match_score", FloatZero),
             field_scores |-> DictGetOr(best, "field_scores", EmptyScores)]),
        "merged_at", now)

MergeRecords(matches, all_records, now) ==
    IF Len(all_records) = 0 THEN <<>>
    ELSE MergeInto(matches, all_records, Head(SortAllRecords(all_records)), now)

\* merge_matches; now is the value datetime.now() returns
merge_matches(matches, now) == MergeRecords(matches, AllRecords(matches), now)

(***************************************************************************)
(* save_profile.  The profiles directory is a dict filename -> content.    *)
(***************************************************************************)
ProfilePrefix == <<"p", "r", "o", "f", "i", "l", "e", "_">>
JsonSuffix == <<".", "j", "s", "o", "n">>

\* str.replace(' ', '_')
SpacesToUnderscores(s) == [i \in 1..Len(s) |-> IF s[i] = " " THEN "_" ELSE s[i]]

ProfileFilename(query) ==
    ProfilePrefix
    \o (IF DictHas(query, "national_id") THEN DictGet(query, "national_id")
        ELSE IF DictHas(query, "full_name") THEN SpacesToUnderscores(DictGet(query, "full_name"))
             ELSE <<"u", "n", "k", "n", "o", "w", "n">>)
    \o JsonSuffix

\* a save_profile that writes nothing
SaveNothing(profiles, profile, query) == profiles

\* save_profile: the directory after the call
save_profile(profiles, profile, query) ==
    IF Len(profile) = 0 THEN profiles
    ELSE DictSet(profiles, ProfileFilename(query), profile)

(***************************************************************************)
(* find_and_return_all_matches                                             *)
(***************************************************************************)
\* clean_match: the match with source_name set and the scoring info moved under match_info
CleanMatch(match, source_name) ==
    LET Clean(clean_match) ==
            DictSet(DictPop(DictPop(DictPop(clean_match, "match_score"), "field_scores"),
                            "is_strong_match"),
                    "match_info",
                    [match_score |-> DictGetOr(clean_match, "match_score", FloatZero),
                     field_scores |-> DictGetOr(clean_match, "field_scores", EmptyScores),
                     is_strong_match |-> DictGetOr(clean_match, "is_strong_match", FALSE)])
    IN Clean(DictSet(match, "source_name", source_name))

\* the clean matches of the first source alone
CleanFirstSource(matches) ==
    IF Len(matches) = 0 THEN <<>>
    ELSE [i \in 1..Len(Head(matches)[2]) |-> CleanMatch(Head(matches)[2][i], Head(matches)[1])]

RECURSIVE CleanMatches(_)
CleanMatches(matches) ==
    IF Len(matches) = 0 THEN <<>>
    ELSE [i \in 1..Len(Head(matches)[2]) |-> CleanMatch(Head(matches)[2][i], Head(matches)[1])]
         \o CleanMatches(Tail(matches))

\* all_individual_matches sorted by match_info.match_score alone
SortIndividualByScore(all_individual_matches) ==
    SortReverse([i \in 1..Len(all_individual_matches) |->
        [key |-> <<0, DictGet(all_individual_matches[i], "match_info").match_score, 0>>,
         item |-> all_individual_matches[i]]])

\* all_individual_matches.sort(key=(match_info.is_strong_match, match_info.match_score), reverse=True)
SortIndividualMatches(all_individual_matches) ==
    SortReverse([i \in 1..Len(all_individual_matches) |->
        [key |-> <<Bool01(DictGet(all_individual_matches[i], "match_info").is_strong_match),
                   DictGet(all_individual_matches[i], "match_info").match_score, 0>>,
         item |-> all_individual_matches[i]]])

\* max() of the match scores
RECURSIVE HighestScore(_)
HighestScore(individual) ==
    LET Higher(first, rest) == IF FloatCmp(rest, first) > 0 THEN rest ELSE first
    IN IF Len(individual) = 1 THEN DictGet(Head(individual), "match_info").match_score
       ELSE Higher(DictGet(Head(individual), "match_info").match_score,
                   HighestScore(Tail(individual)))

\* a summary whose total is the number of sources
MatchSummaryCountingSources(matches, individual) ==
    [total_matches |-> Len(matches),
     sources_matched |-> Len(matches),
     source_breakdown |-> [i \in 1..Len(matches) |-> <<matches[i][1], Len(matches[i][2])>>],
     has_strong_matches |-> \E i \in 1..Len(individual) :
                                DictGet(individual[i], "match_info").is_strong_match,
     highest_score |-> IF Len(individual) > 0 THEN HighestScore(individual) ELSE FloatZero]

MatchSummary(matches, individual) ==
    [total_matches |-> Len(individual),
     sources_matched |-> Len(matches),
     source_breakdown |-> [i \in 1..Len(matches) |-> <<matches[i][1], Len(matches[i][2])>>],
     has_strong_matches |-> \E i \in 1..Len(individual) :
                                DictGet(individual[i], "match_info").is_strong_match,
     highest_score |-> IF Len(individual) > 0 THEN HighestScore(individual) ELSE FloatZero]

\* the matches dict after a merge that strips the base record itself, not a copy of it
RECURSIVE StripFirst(_, _)
StripFirst(source_matches, best) ==
    IF Len(source_matches) = 0 THEN <<>>
    ELSE IF Head(source_matches) = best
         THEN <<RemoveInternalFields(best)>> \o Tail(source_matches)
         ELSE <<Head(source_matches)>> \o StripFirst(Tail(source_matches), best)
MatchesStrippedByMerge(matches) ==
    [i \in 1..Len(matches) |->
        <<matches[i][1], StripFirst(matches[i][2], Head(SortAllRecords(AllRecords(matches))))>>]

\* the matches dict after merge_matches: all_records is a list of its own, it alone is
\* sorted; the fields are popped from and set on all_records[0].copy()
MatchesAfterMerge(matches) == matches

\* the frames of data after find_matches: records = df.fillna('').to_dict('records')
\* are dicts of their own, the four annotations are set on these
FramesAfterFindMatches(mappings_of, query, data) == data

\* the value returned when matches were found, and the profile saved
ReturnFound(profiles, query, now, matches, merged_profile, all_individual_matches) ==
    [result |-> << <<"merged_profile", merged_profile>>,
                   <<"individual_matches", all_individual_matches>>,
                   <<"match_summary", MatchSummary(matches, all_individual_matches)>>,
                   <<"query_used", query>>,
                   <<"search_timestamp", now + 1>> >>,
     matches |-> matches,
     merged_from |-> MatchesAfterMerge(matches),
     profiles |-> save_profile(profiles, merged_profile, query)]

ReturnMatches(profiles, query, now, matches) ==
    IF matches = Raised
    THEN [result |-> Raised, matches |-> <<>>, merged_from |-> <<>>, profiles |-> profiles]
    ELSE IF Len(matches) = 0
    THEN [result |-> None, matches |-> matches, merged_from |-> matches, profiles |-> profiles]
    ELSE ReturnFound(profiles, query, now, matches, merge_matches(matches, now),
                     SortIndividualMatches(CleanMatches(MatchesAfterMerge(matches))))

SearchData(mappings_of, profiles, query, now, data) ==
    IF Len(data) = 0
    THEN [result |-> None, matches |-> <<>>, merged_from |-> <<>>, profiles |-> profiles]
    ELSE ReturnMatches(profiles, query, now, find_matches(mappings_of, query, data))

\* the frames load_processed_data returned to find_and_return_all_matches, as loaded
\* and as they are when the call returns
SearchFrames(mappings_of, data_dir, query) ==
    [loaded |-> load_processed_data(data_dir),
     left |-> FramesAfterFindMatches(mappings_of, query, load_processed_data(data_dir))]

\* find_and_return_all_matches: the returned value, the matches found and the
\* profiles directory after the call; now and now + 1 are the two clock readings
find_and_return_all_matches(mappings_of, data_dir, profiles, query, now) ==
    SearchData(mappings_of, profiles, query, now, load_processed_data(data_dir))

(***************************************************************************)
(* match_profile (src/app.py): the body of the response                    *)
(***************************************************************************)
\* the response when the search returned nothing
NoMatchResponse(query) ==
    [success |-> TRUE,
     profile |-> None,
     individual_matches |-> <<>>,
     match_summary |-> [total_matches |-> 0, sources_matched |-> 0, source_breakdown |-> <<>>,
                        has_strong_matches |-> FALSE, highest_score |-> FloatZero],
     message |-> "No matching profile found",
     query |-> query]

\* the response for the value find_and_return_all_matches returned; sources_searched
\* is the number of sources load_processed_data loads
match_profile(search_result, query, sources_searched) ==
    IF search_result = Raised THEN [success |-> FALSE, error |-> Raised]
    ELSE IF search_result = None THEN NoMatchResponse(query)
    ELSE [success |-> TRUE,
          profile |-> DictGet(search_result, "merged_profile"),
          individual_matches |-> DictGet(search_result, "individual_matches"),
          match_summary |-> DictGet(search_result, "match_summary"),
          query |-> query,
          metadata |->
              [search_timestamp |-> DictGet(search_result, "search_timestamp"),
               sources_searched |-> sources_searched,
               match_quality |-> DictGetOr(DictGet(search_result, "merged_profile"),
                                           "match_quality", <<>>),
               sources |-> DictGetOr(DictGet(search_result, "merged_profile"), "sources", <<>>),
               match_count |-> DictGetOr(DictGet(search_result, "merged_profile"),
                                         "match_count", 0)]]
(***************************************************************************)
(* The agent as a state machine.  schema_mappings is the agent's dict of   *)
(* loaded mappings, processed_data_dir and profiles_dir are the two        *)
(* directories, clock is the time datetime.now() returns next, search_log  *)
(* records every call of find_and_return_all_matches with what it found    *)
(* and returned.  strong_input/strong_output and rank_input/rank_output    *)
(* are the argument and the returned value of _is_strong_match and of the  *)
(* sort-and-cap step of find_matches when these are called on their own;   *)
(* gate_*, score_* and find_* are those of _meets_minimum_requirements,    *)
(* _calculate_match_score and find_matches.                                *)
(***************************************************************************)
VARIABLES schema_mappings, processed_data_dir, profiles_dir, clock, search_log,
          strong_input, strong_output, rank_input, rank_output,
          gate_input, gate_output, score_input, score_output, find_input, find_output,
          scorer_input, scorer_output, loader_input, loader_output, schema_agent

vars == <<schema_mappings, processed_data_dir, profiles_dir, clock, search_log,
          strong_input, strong_output, rank_input, rank_output,
          gate_input, gate_output, score_input, score_output, find_input, find_output,
          scorer_input, scorer_output, loader_input, loader_output, schema_agent>>

agent_vars == <<schema_mappings, processed_data_dir, profiles_dir, clock, search_log>>
strong_vars == <<strong_input, strong_output>>
rank_vars == <<rank_input, rank_output>>
gate_vars == <<gate_input, gate_output>>
score_vars == <<score_input, score_output>>
find_vars == <<find_input, find_output>>
scorer_vars == <<scorer_input, scorer_output>>
loader_vars == <<loader_input, loader_output>>
\* the variables of the calls made on their own and of the schema identification agent
other_vars == <<scorer_vars, loader_vars, schema_agent>>

\* the agent after __init__, nothing searched yet
AgentConstructed ==
    /\ schema_mappings = LoadedMappings
    /\ profiles_dir = <<>>
    /\ clock = 0
    /\ search_log = <<>>

StrongNotCalled == strong_input = EmptyScores /\ strong_output = <<>>
RankNotCalled == rank_input = <<>> /\ rank_output = <<>>
GateNotCalled == gate_input = <<>> /\ gate_output = <<>>
ScoreNotCalled == score_input = <<>> /\ score_output = <<>>
FindNotCalled == find_input = <<>> /\ find_output = <<>>
ScorerNotCalled == scorer_input = <<>> /\ scorer_output = <<>>
LoaderNotCalled == loader_input = <<>> /\ loader_output = <<>>
\* no schema identification agent has been constructed
SchemaAgentAbsent == schema_agent = <<>>
OthersNotCalled == ScorerNotCalled /\ LoaderNotCalled /\ SchemaAgentAbsent

NothingCalled ==
    StrongNotCalled /\ RankNotCalled /\ GateNotCalled /\ ScoreNotCalled /\ FindNotCalled

Init ==
    /\ AgentConstructed
    /\ OthersNotCalled
    /\ processed_data_dir \in Corpora
    /\ NothingCalled

\* one call of find_and_return_all_matches
Search(q) ==
    /\ clock + 2 <= MaxClock
    /\ \E returned \in {find_and_return_all_matches(schema_mappings, processed_data_dir,
                                                     profiles_dir, q, clock)} :
          /\ profiles_dir' = returned.profiles
          /\ search_log' = Append(search_log,
                 [query |-> q, matches |-> returned.matches, result |-> returned.result,
                  merged_from |-> returned.merged_from,
                  frames |-> SearchFrames(schema_mappings, processed_data_dir, q)])
    /\ clock' = clock + 2
    /\ UNCHANGED <<schema_mappings, processed_data_dir,
                   strong_vars, rank_vars, gate_vars, score_vars, find_vars, other_vars>>

Next == \E q \in QueryPool : Search(q)

Spec == Init /\ [][Next]_vars

(***************************************************************************)
(* _is_strong_match called on every field-score dict whose scores lie at   *)
(* or just below the thresholds the function tests.                        *)
(***************************************************************************)
\* 0 stands for a field that is absent from field_scores
ScoreLevels ==
    [national_id : {0, 84, 85, 94, 95, 99, 100},
     full_name : {0, 74, 75, 79, 80, 84, 85, 94, 95, 100},
     dob : {0, 79, 80, 84, 85, 89, 90, 94, 95, 99, 100},
     email : {0, 84, 85, 94, 95, 97, 98},
     phone : {0, 84, 85, 94, 95}]

FieldScoreDicts ==
    {[f \in {x \in DOMAIN levels : levels[x] > 0} |-> levels[f]] : levels \in ScoreLevels}

InitStrong ==
    /\ AgentConstructed
    /\ OthersNotCalled
    /\ processed_data_dir = <<>>
    /\ strong_input \in FieldScoreDicts
    /\ strong_output = <<>>
    /\ RankNotCalled /\ GateNotCalled /\ ScoreNotCalled /\ FindNotCalled

CallIsStrongMatch ==
    /\ strong_output = <<>>
    /\ strong_output' = <<_is_strong_match(strong_input)>>
    /\ UNCHANGED <<agent_vars, strong_input, rank_vars, gate_vars, score_vars, find_vars, other_vars>>

NextStrong == CallIsStrongMatch

SpecStrong == InitStrong /\ [][NextStrong]_vars

(***************************************************************************)
(* The sort-and-cap step of find_matches called on every list of up to     *)
(* MaxAccepted accepted records of one source.                             *)
(***************************************************************************)
\* the largest number of accepted records of the source
MaxAccepted == 10

\* the number of kinds of accepted records
Kinds == 4

\* accepted records as find_matches annotates them: a strong one (1), two that are
\* not (2, 3), and a strong one whose overall score is the lowest of all (4)
AcceptedRecord(kind) ==
    MatchRecord(LoadedMappings, QueryApi,
                CASE kind = 1 -> BankRow(Bank001, LeoDiCaprio, Date1974_11_11, EmailLeo)
                  [] kind = 2 -> BankRow(Bank002, LeonardDiCaprio, Date1974_11_25, EmailLeo)
                  [] kind = 3 -> BankRow(Crm7, LDiCaprio, Date1974_11_14, EmailLd)
                  [] OTHER -> BankRow(Bank001, KateWinslet, Date1980_01_01, Blank),
                "bank").record

\* the lists made of up to three runs of equal records, MaxAccepted records at most,
\* as lists of kinds
Run(k, n) == [i \in 1..n |-> k]
RunLists ==
    UNION {UNION {{Run(first, a) \o Run(second, b) \o Run(third, c) :
                       first \in 1..Kinds, second \in 1..Kinds, third \in 1..Kinds} :
                  c \in 0..(MaxAccepted - a - b)} :
           a \in 0..MaxAccepted, b \in 0..MaxAccepted}

InitRank ==
    /\ AgentConstructed
    /\ OthersNotCalled
    /\ processed_data_dir = <<>>
    /\ StrongNotCalled /\ GateNotCalled /\ ScoreNotCalled /\ FindNotCalled
    /\ \E run_list \in RunLists :
           rank_input = [i \in 1..Len(run_list) |-> AcceptedRecord(run_list[i])]
    /\ rank_output = <<>>

CallRank ==
    /\ rank_output = <<>>
    /\ rank_output' = <<StoreSourceMatches(<<>>, "bank", rank_input)>>
    /\ UNCHANGED <<agent_vars, strong_vars, rank_input, gate_vars, score_vars, find_vars, other_vars>>

NextRank == CallRank

SpecRank == InitRank /\ [][NextRank]_vars


(***************************************************************************)
(* _meets_minimum_requirements called on every field-score dict whose      *)
(* scores lie at or just below the thresholds the function tests, with a   *)
(* query that has a name and a date of birth, one that has a name only and *)
(* one whose name is the empty string.                                     *)
(***************************************************************************)
\* 0 stands for a field that is absent from field_scores
GateLevels ==
    [national_id : {0, 49, 84, 85, 100},
     full_name : {0, 49, 59, 60, 64, 65, 74, 75, 89, 90, 100},
     dob : {0, 49, 59, 60, 64, 65, 99, 100},
     email : {0, 49, 50, 64, 65},
     phone : {0, 49, 50}]

GateScoreDicts ==
    {[f \in {x \in DOMAIN levels : levels[x] > 0} |-> levels[f]] : levels \in GateLevels}

QueryBlankName == << <<"full_name", Blank>>, <<"dob", Date1974_11_11>> >>
GateQueries == {QueryApi, QueryNameOnly, QueryBlankName}

InitGate ==
    /\ AgentConstructed
    /\ OthersNotCalled
    /\ processed_data_dir = <<>>
    /\ StrongNotCalled /\ RankNotCalled /\ ScoreNotCalled /\ FindNotCalled
    /\ gate_input \in [field_scores : GateScoreDicts, query : GateQueries]
    /\ gate_output = <<>>

CallMeetsMinimumRequirements ==
    /\ gate_output = <<>>
    /\ gate_output' = <<_meets_minimum_requirements(gate_input.field_scores, gate_input.query)>>
    /\ UNCHANGED <<agent_vars, strong_vars, rank_vars, gate_input, score_vars, find_vars, other_vars>>

NextGate == CallMeetsMinimumRequirements

SpecGate == InitGate /\ [][NextGate]_vars

(***************************************************************************)
(* _calculate_match_score called with the three fields of the API query in *)
(* every order and every non-empty selection, on rows of every shape,      *)
(* under the source that has a mapping file and the source that has none.  *)
(* score_output is <<"returned", value>> or <<"raised", exception>>.       *)
(***************************************************************************)
\* the fields of the API query and a field that has no weight
QueryFields == {QueryApi[i] : i \in 1..Len(QueryApi)} \cup {<<"note", Web>>}
\* the queries of n distinct fields, in every order
OrderedQueries(n) ==
    {query \in [1..n -> QueryFields] : \A i, j \in 1..n : i # j => query[i] # query[j]}
ScoreQueries == UNION {OrderedQueries(n) : n \in 1..Len(QueryApi)}

ScoreRecords ==
    {BankRow(Bank001, LeoDiCaprio, Date1974_11_11, EmailLeo), BankRowKate, BankRowNoName}
    \cup CrmRows \cup NotesRows \cup {SourceNameRow, NameOnlyRow, UnlabelledRow}

InitScore ==
    /\ AgentConstructed
    /\ OthersNotCalled
    /\ processed_data_dir = <<>>
    /\ StrongNotCalled /\ RankNotCalled /\ GateNotCalled /\ FindNotCalled
    /\ score_input \in [query : ScoreQueries, record : ScoreRecords, source_name : {"bank", "crm"}]
    /\ score_output = <<>>

CallCalculateMatchScore ==
    /\ score_output = <<>>
    /\ score_output' =
           IF ScoringRaises(schema_mappings, score_input.query,
                            score_input.record, score_input.source_name)
           THEN <<"raised", Raised>>
           ELSE <<"returned", _calculate_match_score(schema_mappings, score_input.query,
                                                     score_input.record,
                                                     score_input.source_name)>>
    /\ UNCHANGED <<agent_vars, strong_vars, rank_vars, gate_vars, score_input, find_vars, other_vars>>

NextScore == CallCalculateMatchScore

SpecScore == InitScore /\ [][NextScore]_vars

(***************************************************************************)
(* find_matches called on frames handed to it directly: up to MaxFindRows  *)
(* bank rows, with or without a frame whose second column has no name.     *)
(* find_output is <<"returned", value>> or <<"raised", exception>>.        *)
(***************************************************************************)
\* the largest number of rows of the bank frame
MaxFindRows == 2

Frame(columns, records) == [columns |-> columns, records |-> records]
UnlabelledFrame == Frame(<<"full_name", IntLabel0>>, <<UnlabelledRow>>)

\* the data dicts: the bank frame alone, before and after the unlabelled frame
FindData ==
    UNION {{<< <<"bank", Frame(BankColumns, bank)>> >>,
            << <<"bank", Frame(BankColumns, bank)>>, <<"scan", UnlabelledFrame>> >>,
            << <<"scan", UnlabelledFrame>>, <<"bank", Frame(BankColumns, bank)>> >>} :
           bank \in UNION {RowLists(BankRows, n) : n \in 1..MaxFindRows}}

InitFind ==
    /\ AgentConstructed
    /\ OthersNotCalled
    /\ processed_data_dir = <<>>
    /\ StrongNotCalled /\ RankNotCalled /\ GateNotCalled /\ ScoreNotCalled
    /\ find_input \in [query : QueryPool, data : FindData]
    /\ find_output = <<>>

CallFindMatches ==
    /\ find_output = <<>>
    /\ find_output' =
           IF FindMatchesRaises(schema_mappings, find_input.query, find_input.data)
           THEN <<"raised", Raised>>
           ELSE <<"returned", find_matches(schema_mappings, find_input.query, find_input.data)>>
    /\ UNCHANGED <<agent_vars, strong_vars, rank_vars, gate_vars, score_vars, find_input, other_vars>>

NextFind == CallFindMatches

SpecFind == InitFind /\ [][NextFind]_vars

(***************************************************************************)
(* The five field scorers called on their own, on every pair of raw values *)
(* of a pool that has values the normalizer of the field rejects or        *)
(* empties.  scorer_output is <<"returned", score>>.                       *)
(***************************************************************************)
ScorerValues ==
    [name |-> {LeoDiCaprio, LeonardoDiCaprio, LDiCaprio, KateWinslet, AnnaMaria, Ana,
               MrLeoDiCaprioJr, DrOnly, Blank},
     date |-> {Date1974_11_11, Date1974_11_11_US, Date1974_11_12, Date1974_11_13,
               Date1974_11_18, Date1974_11_19, Date1974_12_11, Date1974_12_12,
               Date1975_11_11, Date1975_11_12, Date1975_12_16, Date0999_01_01,
               Date0999_01_02, Date1974_13_01, Blank},
     id |-> {Bank001, Bank001Dashed, Bank001Spaced, Bank002, Crm7, Dashes, Blank},
     email |-> {EmailLeo, EmailLeoUpper, EmailLd, NoAtSign, Blank},
     phone |-> {PhoneLeo, PhoneLeoSpaced, PhoneOther, PhoneShort, Blank}]

ScorerInputs ==
    UNION {[scorer : {scorer}, query_value : ScorerValues[scorer],
            record_value : ScorerValues[scorer]] : scorer \in DOMAIN ScorerValues}

InitScorer ==
    /\ AgentConstructed
    /\ processed_data_dir = <<>>
    /\ NothingCalled
    /\ LoaderNotCalled /\ SchemaAgentAbsent
    /\ scorer_input \in ScorerInputs
    /\ scorer_output = <<>>

Returns(scorer, score) ==
    /\ scorer_output = <<>>
    /\ scorer_input.scorer = scorer
    /\ scorer_output' = <<"returned", score>>
    /\ UNCHANGED <<agent_vars, strong_vars, rank_vars, gate_vars, score_vars, find_vars,
                   scorer_input, loader_vars, schema_agent>>

CallNameScore ==
    Returns("name", _calculate_name_score(scorer_input.query_value, scorer_input.record_value))
CallDateScore ==
    Returns("date", _calculate_date_score(scorer_input.query_value, scorer_input.record_value))
CallIdScore ==
    Returns("id", _calculate_id_score(scorer_input.query_value, scorer_input.record_value))
CallEmailScore ==
    Returns("email", _calculate_email_score(scorer_input.query_value, scorer_input.record_value))
CallPhoneScore ==
    Returns("phone", _calculate_phone_score(scorer_input.query_value, scorer_input.record_value))

NextScorer ==
    CallNameScore \/ CallDateScore \/ CallIdScore \/ CallEmailScore \/ CallPhoneScore

SpecScorer == InitScorer /\ [][NextScorer]_vars

(***************************************************************************)
(* _load_schema_mappings called on a mappings directory of up to           *)
(* MaxMappingFiles files, listed in every order: enhanced and legacy       *)
(* mapping files of two sources and a file with no source_name.            *)
(***************************************************************************)
\* the largest number of files in the schema mappings directory
MaxMappingFiles == 4

EnhancedFile(source_name) ==
    [legacy_name |-> FALSE,
     mapping |-> << <<"source_name", source_name>>,
                    <<"field_mappings", << <<"full_name", FieldMapping("full_name")>> >> >> >>]
LegacyFile(source_name) ==
    [legacy_name |-> TRUE,
     mapping |-> << <<"source_name", source_name>>,
                    <<"mappings", << <<"full_name", FieldMapping("full_name")>> >> >> >>]
UnnamedFile ==
    [legacy_name |-> FALSE,
     mapping |-> << <<"field_mappings", << <<"full_name", FieldMapping("full_name")>> >> >> >>]
MappingFilePool ==
    {EnhancedFile("bank"), LegacyFile("bank"), EnhancedFile("crm"), LegacyFile("crm"),
     UnnamedFile}

\* the listings of up to MaxMappingFiles distinct files, in every order
MappingDirs ==
    UNION {{listing \in [1..n -> MappingFilePool] :
                \A i, j \in 1..n : i # j => listing[i] # listing[j]} :
           n \in 0..MaxMappingFiles}

InitLoad ==
    /\ AgentConstructed
    /\ processed_data_dir = <<>>
    /\ NothingCalled
    /\ ScorerNotCalled /\ SchemaAgentAbsent
    /\ loader_input \in MappingDirs
    /\ loader_output = <<>>

CallLoadSchemaMappings ==
    /\ loader_output = <<>>
    /\ loader_output' = <<_load_schema_mappings(loader_input)>>
    /\ UNCHANGED <<agent_vars, strong_vars, rank_vars, gate_vars, score_vars, find_vars,
                   scorer_vars, loader_input, schema_agent>>

NextLoad == CallLoadSchemaMappings

SpecLoad == InitLoad /\ [][NextLoad]_vars

(***************************************************************************)
(* EnhancedSchemaIdentificationAgent: process_all_sources maps every       *)
(* discovered source on a worker thread.  The steps of a worker are the    *)
(* places where it reads or writes what the workers share: the lru_cache   *)
(* around _get_cached_mapping, the cache files and mapping files of the    *)
(* schema mappings directory, and self.schema_mappings.                    *)
(***************************************************************************)
\* the header columns of the discovered source files; an empty file has none
SourceColumns ==
    << <<"bank", <<"full_name", "dob">> >>,
       <<"crm", <<"dob", "full_name">> >>,
       <<"web", <<"email">> >>,
       <<"empty", <<>> >> >>
SourceNames == {"bank", "crm", "web", "empty"}

\* extract_schema_from_source: the columns, or None
extract_schema_from_source(agent, source_name) ==
    IF ~DictHas(agent.discovered_sources, source_name) THEN None
    ELSE DictGet(agent.discovered_sources, source_name)

\* '|'.join(...)
RECURSIVE JoinBar(_)
JoinBar(words) ==
    IF Len(words) = 0 THEN <<>>
    ELSE IF Len(words) = 1 THEN words[1]
         ELSE words[1] \o <<"|">> \o JoinBar(Tail(words))

\* _get_schema_hash: the md5 digest of the sorted column names joined by '|';
\* the digest is represented by the string it is taken of
_get_schema_hash(schema) ==
    JoinBar(SortWordList([i \in 1..Len(schema) |-> ColumnChars[schema[i]]]))

\* _get_cached_mapping, the wrapped method: the content of cache_<hash>.json,
\* or nothing when there is no such file
_get_cached_mapping(agent, schema_hash) ==
    IF DictHas(agent.cache_files, schema_hash)
    THEN <<DictGet(agent.cache_files, schema_hash)>>
    ELSE <<>>

\* _save_to_cache: writes cache_<hash>.json
_save_to_cache(cache_files, schema_hash, mapping) == DictSet(cache_files, schema_hash, mapping)

\* the confidence, in hundredths, the mapper gives for a field it recognises
LlmConfidence == [full_name |-> 95, dob |-> 75, email |-> 50]
UnifiedFieldOf == [full_name |-> "full_name", dob |-> "birth_date", email |-> "email"]
\* the answers of llm_mapper.map_field_to_unified_schema for a field:
\* (unified_field, confidence), or (None, 0.0) when the field is not recognised
\* or the service fails
LlmAnswers(field) == {<<UnifiedFieldOf[field], LlmConfidence[field]>>, <<None, 0>>}
HighConfidence == 90
MediumConfidence == 70

\* _process_field_mapping
_process_field_mapping(field, answer) ==
    IF answer[1] # None
    THEN << <<"unified_field", answer[1]>>,
            <<"confidence", answer[2]>>,
            <<"mapping_type", IF answer[2] >= HighConfidence THEN "high"
                              ELSE IF answer[2] >= MediumConfidence THEN "medium"
                                   ELSE "low">> >>
    ELSE None

\* the loop over as_completed: the fields in the order their futures complete
RECURSIVE CollectMappings(_, _)
CollectMappings(completed, answers) ==
    IF Len(completed) = 0 THEN [mappings |-> <<>>, unmapped_fields |-> <<>>]
    ELSE LET field == completed[Len(completed)]
             before == CollectMappings(SubSeq(completed, 1, Len(completed) - 1), answers)
             mapping == _process_field_mapping(field, answers[field])
         IN  IF mapping # None
             THEN [before EXCEPT !.mappings = DictSet(@, field, mapping)]
             ELSE [before EXCEPT !.unmapped_fields = Append(@, field)]

CountType(mappings, mapping_type) ==
    Cardinality({i \in 1..Len(mappings) : DictGet(mappings[i][2], "mapping_type") = mapping_type})

\* mapping_result of generate_schema_mapping; success_rate in hundredths
MappingResult(source_name, source_fields, collected, generated_at) ==
    << <<"source_name", source_name>>,
       <<"source_fields", source_fields>>,
       <<"mappings", collected.mappings>>,
       <<"unmapped_fields", collected.unmapped_fields>>,
       <<"mapping_stats",
         << <<"total_fields", Len(source_fields)>>,
            <<"mapped_fields", Len(collected.mappings)>>,
            <<"high_confidence", CountType(collected.mappings, "high")>>,
            <<"medium_confidence", CountType(collected.mappings, "medium")>>,
            <<"low_confidence", CountType(collected.mappings, "low")>>,
            <<"success_rate", (100 * Len(collected.mappings)) \div Len(source_fields)>> >> >>,
       <<"generated_at", generated_at>>,
       <<"agent_version", <<1, 0, 0>> >>,
       <<"unified_schema_version", <<1, 0, 0>> >> >>

\* MAX_WORKERS: the threads of the pool of process_all_sources
MAX_WORKERS == 4

\* a worker of process_all_sources that has not started _process_single_source
WorkerSubmitted ==
    [pc |-> "submitted", schema_hash |-> <<>>, cache_at_call |-> <<>>,
     cached_mapping |-> <<>>, mapping |-> <<>>, mapped_fields |-> FALSE, result |-> None]

\* the cache file an earlier run of the agent left when it mapped source crm
EarlierRunCache ==
    << <<_get_schema_hash(DictGet(SourceColumns, "crm")),
         MappingResult("crm", DictGet(SourceColumns, "crm"),
                       CollectMappings(DictGet(SourceColumns, "crm"),
                                       [field \in {"dob", "full_name"} |->
                                           <<UnifiedFieldOf[field], LlmConfidence[field]>>]),
                       0)>> >>
CacheDirs == {<<>>, EarlierRunCache}

\* the agent after __init__ and discover_data_sources, every source submitted to the pool
SchemaAgentStarted(cache_files) ==
    [discovered_sources |-> SourceColumns,
     schema_mappings |-> <<>>,
     lru |-> <<>>,
     cache_files |-> cache_files,
     mapping_files |-> <<>>,
     workers |-> [source_name \in SourceNames |-> WorkerSubmitted],
     lookups |-> <<>>,
     now |-> 1]

InitSchema ==
    /\ AgentConstructed
    /\ processed_data_dir = <<>>
    /\ NothingCalled
    /\ ScorerNotCalled /\ LoaderNotCalled
    /\ schema_agent \in {SchemaAgentStarted(cache_files) : cache_files \in CacheDirs}

Running(agent) ==
    {source_name \in SourceNames : agent.workers[source_name].pc \notin {"submitted", "done"}}

SchemaStep(agent) ==
    /\ schema_agent' = agent
    /\ UNCHANGED <<agent_vars, strong_vars, rank_vars, gate_vars, score_vars, find_vars,
                   scorer_vars, loader_vars>>

\* a finished lookup of the memoised _get_cached_mapping
Lookup(source_name, worker, returned) ==
    [source_name |-> source_name, schema_hash |-> worker.schema_hash,
     cache_at_call |-> worker.cache_at_call, returned |-> returned]

\* generate_schema_mapping, lines 817-820: no schema, None is returned and
\* _process_single_source returns False
ExtractFails(source_name) ==
    LET source_fields == extract_schema_from_source(schema_agent, source_name)
    IN  /\ schema_agent.workers[source_name].pc = "submitted"
        /\ Cardinality(Running(schema_agent)) < MAX_WORKERS
        /\ source_fields = None \/ Len(source_fields) = 0
        /\ SchemaStep([schema_agent EXCEPT !.workers[source_name].pc = "done",
                                           !.workers[source_name].result = FALSE])

\* generate_schema_mapping, lines 824-825: the hash and the call of the lru_cache
\* wrapper, which answers from its memo or goes on to call the wrapped method
LookupCache(source_name) ==
    LET source_fields == extract_schema_from_source(schema_agent, source_name)
        schema_hash == _get_schema_hash(source_fields)
        called == [schema_agent.workers[source_name] EXCEPT
                       !.schema_hash = schema_hash,
                       !.cache_at_call = _get_cached_mapping(schema_agent, schema_hash)]
    IN  /\ schema_agent.workers[source_name].pc = "submitted"
        /\ Cardinality(Running(schema_agent)) < MAX_WORKERS
        /\ source_fields # None /\ Len(source_fields) > 0
        /\ IF DictHas(schema_agent.lru, schema_hash)
           THEN LET memoised == DictGet(schema_agent.lru, schema_hash)
                IN  SchemaStep([schema_agent EXCEPT
                        !.workers[source_name] =
                            [called EXCEPT !.pc = "looked_up", !.cached_mapping = memoised],
                        !.lookups = Append(@, Lookup(source_name, called, memoised))])
           ELSE SchemaStep([schema_agent EXCEPT
                        !.workers[source_name] = [called EXCEPT !.pc = "reading"]])

\* the wrapped _get_cached_mapping reads the cache file; the wrapper memoises the
\* result unless the key was memoised during the call (the memo holds 100 keys, more
\* than the column sets of the sources, so no key is evicted)
ReadCacheFile(source_name) ==
    LET worker == schema_agent.workers[source_name]
        found == _get_cached_mapping(schema_agent, worker.schema_hash)
    IN  /\ worker.pc = "reading"
        /\ SchemaStep([schema_agent EXCEPT
               !.lru = IF DictHas(@, worker.schema_hash) THEN @
                       ELSE DictSet(@, worker.schema_hash, found),
               !.workers[source_name] =
                   [worker EXCEPT !.pc = "looked_up", !.cached_mapping = found],
               !.lookups = Append(@, Lookup(source_name, worker, found))])

\* generate_schema_mapping, lines 826-828: the cached mapping is returned
ReturnCached(source_name) ==
    LET worker == schema_agent.workers[source_name]
    IN  /\ worker.pc = "looked_up"
        /\ worker.cached_mapping # <<>>
        /\ SchemaStep([schema_agent EXCEPT
               !.workers[source_name] =
                   [worker EXCEPT !.pc = "generated", !.mapping = worker.cached_mapping]])

\* generate_schema_mapping, lines 830-891: the fields are mapped, the result is
\* stored in memory and written to the cache
MapFields(source_name) ==
    LET worker == schema_agent.workers[source_name]
        source_fields == extract_schema_from_source(schema_agent, source_name)
    IN  /\ worker.pc = "looked_up"
        /\ worker.cached_mapping = <<>>
        /\ \E completed \in {order \in [1..Len(source_fields) -> SeqToSet(source_fields)] :
                                 \A i, j \in 1..Len(source_fields) :
                                     i # j => order[i] # order[j]} :
           \E answers \in {given \in [SeqToSet(source_fields) -> UNION {LlmAnswers(field) : field \in SeqToSet(source_fields)}] :
                               \A field \in SeqToSet(source_fields) :
                                   given[field] \in LlmAnswers(field)} :
              LET mapping_result ==
                      MappingResult(source_name, source_fields,
                                    CollectMappings(completed, answers), schema_agent.now)
              IN  SchemaStep([schema_agent EXCEPT
                      !.schema_mappings = DictSet(@, source_name, mapping_result),
                      !.cache_files = _save_to_cache(@, worker.schema_hash, mapping_result),
                      !.now = @ + 1,
                      !.workers[source_name] =
                          [worker EXCEPT !.pc = "generated", !.mapping = <<mapping_result>>,
                                         !.mapped_fields = TRUE]])

\* _process_single_source, lines 1052-1054, and save_schema_mapping:
\* <source_name>_schema_map.json is written
SaveSchemaMapping(source_name) ==
    LET worker == schema_agent.workers[source_name]
    IN  /\ worker.pc = "generated"
        /\ SchemaStep([schema_agent EXCEPT
               !.mapping_files = DictSet(@, source_name, worker.mapping[1]),
               !.workers[source_name] = [worker EXCEPT !.pc = "done", !.result = TRUE]])

NextSchema ==
    \E source_name \in SourceNames :
        \/ ExtractFails(source_name)
        \/ LookupCache(source_name)
        \/ ReadCacheFile(source_name)
        \/ ReturnCached(source_name)
        \/ MapFields(source_name)
        \/ SaveSchemaMapping(source_name)

SpecSchema == InitSchema /\ [][NextSchema]_vars
(***************************************************************************)
(* Properties                                                              *)
(***************************************************************************)
\* _is_strong_match has been called and has returned
StrongReturned == strong_output # <<>>
HasScore(scores, f) == f \in DOMAIN scores
\* the score of a field, 0 when the field is absent
ScoreOr0(scores, f) == IF f \in DOMAIN scores THEN scores[f] ELSE 0

\* C1: whenever the national_id score is exactly 100, _is_strong_match returns
\* true, whatever other field scores are present and whatever their values.
C1_PerfectIdIsStrong ==
    (StrongReturned /\ HasScore(strong_input, "national_id") /\ strong_input["national_id"] = 100)
        => strong_output[1]

\* a call with a perfect national_id score next to the lowest scores of the
\* other four fields has returned true
C1_Witness ==
    /\ StrongReturned
    /\ DOMAIN strong_input = {"national_id", "full_name", "dob", "email", "phone"}
    /\ strong_input["national_id"] = 100
    /\ strong_input["full_name"] = 74 /\ strong_input["dob"] = 79
    /\ strong_input["email"] = 84 /\ strong_input["phone"] = 84
    /\ strong_output[1]

\* the four rules of the strong-match classification; an absent field passes no threshold
StrongRule1(scores) == HasScore(scores, "national_id") /\ scores["national_id"] = 100
StrongRule2(scores) ==
    /\ HasScore(scores, "full_name") /\ HasScore(scores, "dob")
    /\ \/ scores["full_name"] >= 85 /\ scores["dob"] >= 90
       \/ scores["full_name"] >= 95 /\ scores["dob"] >= 80
       \/ scores["dob"] = 100 /\ scores["full_name"] >= 80
StrongRule3(scores) ==
    /\ ScoreOr0(scores, "email") >= 98
    /\ ScoreOr0(scores, "full_name") >= 75 \/ ScoreOr0(scores, "dob") >= 85
StrongRule4(scores) ==
    \/ Cardinality({f \in DOMAIN scores : scores[f] >= 85}) >= 3
    \/ Cardinality({f \in DOMAIN scores : scores[f] >= 95}) >= 2

\* C10: _is_strong_match returns true exactly when one of the rules (1) to (4)
\* holds on the field scores.
C10_StrongIffRules ==
    StrongReturned =>
        (strong_output[1] <=> (StrongRule1(strong_input) \/ StrongRule2(strong_input)
                               \/ StrongRule3(strong_input) \/ StrongRule4(strong_input)))

\* an e-mail score of 98 next to a name score of 74 is not strong
C10_Witness ==
    /\ StrongReturned
    /\ DOMAIN strong_input = {"email", "full_name"}
    /\ strong_input["email"] = 98 /\ strong_input["full_name"] = 74
    /\ ~strong_output[1]

\* _meets_minimum_requirements has been called and has returned
GateReturned == gate_output # <<>>
\* more than half of the scored fields are below 50
MostlyLow(scores) ==
    2 * Cardinality({f \in DOMAIN scores : scores[f] < 50}) > Cardinality(DOMAIN scores)

\* C11: the minimum-requirements gate returns false for every field-score set in
\* which more than half of the scored fields are below 50, whatever the query,
\* also when the query supplies both full_name and dob.
C11_MostlyLowRejected ==
    (GateReturned /\ MostlyLow(gate_input.field_scores)) => ~gate_output[1]

\* C12: whenever _meets_minimum_requirements returns true, the highest field score
\* is at least 65; national_id is at least 85 or full_name at least 75; and, when the
\* query has a non-empty full_name and dob, (dob = 100 and full_name >= 60) or
\* (full_name >= 90 and dob >= 60) or (full_name >= 65 and dob >= 65), an absent
\* field counting as 0.
C12_GatePassImplies ==
    (GateReturned /\ gate_output[1]) =>
        /\ \E f \in DOMAIN gate_input.field_scores : gate_input.field_scores[f] >= 65
        /\ \/ ScoreOr0(gate_input.field_scores, "national_id") >= 85
           \/ ScoreOr0(gate_input.field_scores, "full_name") >= 75
        /\ (QueryHas(gate_input.query, "full_name") /\ QueryHas(gate_input.query, "dob")) =>
               \/ /\ ScoreOr0(gate_input.field_scores, "dob") = 100
                  /\ ScoreOr0(gate_input.field_scores, "full_name") >= 60
               \/ /\ ScoreOr0(gate_input.field_scores, "full_name") >= 90
                  /\ ScoreOr0(gate_input.field_scores, "dob") >= 60
               \/ /\ ScoreOr0(gate_input.field_scores, "full_name") >= 65
                  /\ ScoreOr0(gate_input.field_scores, "dob") >= 65

\* the gate has passed a name score of 60 next to a perfect date of birth and an ID
\* score of 85, for the query of the API
C12_Witness ==
    /\ GateReturned /\ gate_output[1]
    /\ gate_input.query = QueryApi
    /\ DOMAIN gate_input.field_scores = {"national_id", "full_name", "dob"}
    /\ gate_input.field_scores["national_id"] = 85
    /\ gate_input.field_scores["full_name"] = 60
    /\ gate_input.field_scores["dob"] = 100

\* _calculate_match_score has been called and has returned a value
ScoreReturned == Len(score_output) = 2 /\ score_output[1] = "returned"

\* the scorer of a unified field
FieldScorer(field, val, record_value) ==
    CASE field = "national_id" -> _calculate_id_score(val, record_value)
      [] field = "full_name" -> _calculate_name_score(val, record_value)
      [] field = "dob" -> _calculate_date_score(val, record_value)
      [] field = "email" -> _calculate_email_score(val, record_value)
      [] field = "phone" -> _calculate_phone_score(val, record_value)
      [] OTHER -> fuzz_ratio(Lower(val), Lower(record_value))

\* the highest score of a query value over the columns of a list that the record has
ColumnMax(field, val, record, columns) ==
    MaxOfSeq(<<0>> \o [k \in 1..Len(columns) |->
                          IF DictHas(record, columns[k])
                          THEN FieldScorer(field, val, DictGet(record, columns[k])) ELSE 0])

\* field_scores holds exactly the positive ones of the given scores
HoldsScore(field_scores, field, best) ==
    IF best > 0 THEN field \in DOMAIN field_scores /\ field_scores[field] = best
    ELSE field \notin DOMAIN field_scores

\* C13: for every query field that has a weight, the score stored for the unified field is the
\* maximum, over the record's candidate source columns for that field, of the
\* field's scorer applied to the query value and the column value; the full_name
\* score does not depend on the score of another query field, whatever the order
\* of the fields in the query.
C13_StoredScoreIsColumnMax ==
    ScoreReturned =>
        \A i \in 1..Len(score_input.query) :
            score_input.query[i][1] \in DOMAIN MATCH_WEIGHTS =>
            HoldsScore(score_output[2].field_scores, score_input.query[i][1],
                       ColumnMax(score_input.query[i][1], score_input.query[i][2],
                                 score_input.record,
                                 ResolveSourceFields(schema_mappings, score_input.query[i][1],
                                                     score_input.record,
                                                     score_input.source_name)))

\* _calculate_match_score has been called: it has returned or raised
ScoreCalled == Len(score_output) = 2
AllStrLabels(record) == \A k \in 1..Len(record) : IsStrLabel(record[k][1])

\* the mapping of the source names no column of the record for the field
NoMappedColumn(field, record, source_name) ==
    \A sf \in SeqToSet(_get_field_mapping(schema_mappings, source_name, field)) :
        ~DictHas(record, sf)

\* the terms of the heuristic name search
FallbackTerms ==
    [full_name |-> <<"full_name", "name">>,
     national_id |-> <<"id", "customer_id", "national_id">>,
     dob |-> <<"dob", "birth", "date_of_birth">>,
     email |-> <<"email">>,
     phone |-> <<"phone", "mobile", "telephone">>]

\* the columns scored when the mapping names none: the column with the field's own
\* name, else the columns the name search finds
FallbackColumns(field, record) ==
    IF DictHas(record, field) THEN <<field>>
    ELSE SelectSeq(DictKeys(record),
                   LAMBDA col :
                       /\ ColumnContains(col, FallbackTerms[field])
                       /\ field \in {"full_name", "national_id"} =>
                              ~ColumnContains(col, <<"source_name">>))

\* the query without its i-th field
QueryWithout(query, i) == SubSeq(query, 1, i - 1) \o SubSeq(query, i + 1, Len(query))

SameScores(a, b) == DOMAIN a = DOMAIN b /\ \A f \in DOMAIN a : a[f] = b[f]

\* what the claim says of the i-th query field, which the mapping resolves to no column;
\* the value of a full_name score is compared where full_name is the first field of
\* the query (the value it has after another field is the subject of C13)
FallbackScored(query, i, record, source_name, field_scores, columns) ==
    /\ (i = 1 \/ query[i][1] # "full_name") =>
           HoldsScore(field_scores, query[i][1],
                      ColumnMax(query[i][1], query[i][2], record, columns))
    /\ Len(columns) = 0 =>
           /\ query[i][1] \notin DOMAIN field_scores
           /\ SameScores(field_scores,
                         _calculate_match_score(schema_mappings, QueryWithout(query, i),
                                                record, source_name).field_scores)

FindCalled == Len(find_output) = 2

\* the data without the records whose scoring raises
DataWithoutRaising(query, data) ==
    [i \in 1..Len(data) |->
        <<data[i][1],
          [columns |-> data[i][2].columns,
           records |-> SelectSeq(data[i][2].records,
                                 LAMBDA record :
                                     ~ScoringRaises(schema_mappings, query, record, data[i][1]))]>>]

\* C14: when the scoring of a record raises an exception, find_matches does not
\* abort: it returns, the record is not accepted, and the records of every source
\* are scored, filtered and ranked as if the record were absent.
C14_BadRecordIsolated ==
    (FindCalled /\ FindMatchesRaises(schema_mappings, find_input.query, find_input.data)) =>
        /\ find_output[1] = "returned"
        /\ find_output[2] = find_matches(schema_mappings, find_input.query,
                                         DataWithoutRaising(find_input.query, find_input.data))

\* the calls of find_and_return_all_matches made so far
Searches == 1..Len(search_log)
\* the sources load_processed_data loads from the processed data directory
LoadedSources == load_processed_data(processed_data_dir)

\* C15: the result of a search when no source could be loaded ("no data
\* available") can be told from the result of a search whose sources were loaded
\* and in which no record was accepted ("no match"): the value the search returns,
\* or the response the API builds from it, differs.
C15_NoDataDistinguishable ==
    \A i \in Searches :
        (Len(LoadedSources) > 0 /\ Len(search_log[i].matches) = 0) =>
            \/ search_log[i].result
                   # find_and_return_all_matches(schema_mappings, <<>>, <<>>,
                                                 search_log[i].query, 0).result
            \/ match_profile(search_log[i].result, search_log[i].query, Len(LoadedSources))
                   # match_profile(find_and_return_all_matches(schema_mappings, <<>>, <<>>,
                                                               search_log[i].query, 0).result,
                                   search_log[i].query, 0)

\* what a call of the search that logged entry has done to the profiles directory
SearchWrote(entry, before, after) ==
    IF Len(entry.matches) = 0
    THEN /\ entry.result = None
         /\ match_profile(entry.result, entry.query, 0).profile = None
         /\ match_profile(entry.result, entry.query, 0).match_summary.total_matches = 0
         /\ after = before
    ELSE /\ Len(DictGet(entry.result, "merged_profile")) > 0
         /\ after = DictSet(before, ProfileFilename(entry.query),
                            DictGet(entry.result, "merged_profile"))
         /\ Len(after) <= Len(before) + 1

Retained(entry) == AllRecords(entry.matches)
\* the search has retained at least one match
Found(entry) == Len(entry.matches) > 0

\* the counts, the sources and the summary of one result
CountsAgree(merged, individual, summary, retained) ==
    /\ DictGet(merged, "match_count") = summary.total_matches
    /\ summary.total_matches = Len(individual)
    /\ Len(individual) = Len(retained)
    /\ SumOfSeq([k \in 1..Len(summary.source_breakdown) |-> summary.source_breakdown[k][2]])
           = summary.total_matches
SourcesAgree(merged_sources, individual, summary, matches) ==
    /\ SeqToSet(merged_sources) = {matches[k][1] : k \in {j \in 1..Len(matches) : Len(matches[j][2]) > 0}}
    /\ SeqToSet(merged_sources) = {DictGet(individual[k], "source_name") : k \in 1..Len(individual)}
    /\ Len(merged_sources) = Cardinality(SeqToSet(merged_sources))
    /\ summary.sources_matched = Len(merged_sources)
    /\ SeqToSet(merged_sources) = {summary.source_breakdown[k][1] : k \in 1..Len(summary.source_breakdown)}
    /\ \A k \in 1..Len(summary.source_breakdown) : summary.source_breakdown[k][2] > 0
QualityAgrees(match_quality, individual, summary, retained) ==
    /\ summary.has_strong_matches <=> \E k \in 1..Len(retained) : DictGet(retained[k], "is_strong_match")
    /\ \A k \in 1..Len(retained) :
           FloatCmp(summary.highest_score, DictGet(retained[k], "match_score")) >= 0
    /\ \E k \in 1..Len(retained) :
           FloatCmp(summary.highest_score, DictGet(retained[k], "match_score")) = 0
    /\ FloatCmp(summary.highest_score, match_quality.overall_score) >= 0
    /\ match_quality.is_strong_match = DictGet(individual[1], "match_info").is_strong_match
    /\ FloatCmp(match_quality.overall_score, DictGet(individual[1], "match_info").match_score) = 0
    /\ SameScores(match_quality.field_scores, DictGet(individual[1], "match_info").field_scores)

\* C17: in every result of a search that retains a match, match_count, total_matches,
\* the length of the individual-matches list and the sum of source_breakdown are
\* equal; sources is exactly the set of sources that retained a match and
\* sources_matched its size; has_strong_matches holds iff a retained match is strong;
\* highest_score is the highest overall score of the retained matches and at least
\* match_quality.overall_score; match_quality is that of the base match.
C17_ResultConsistent ==
    \A i \in Searches :
        Found(search_log[i]) =>
            /\ CountsAgree(DictGet(search_log[i].result, "merged_profile"),
                           DictGet(search_log[i].result, "individual_matches"),
                           DictGet(search_log[i].result, "match_summary"),
                           Retained(search_log[i]))
            /\ SourcesAgree(DictGet(DictGet(search_log[i].result, "merged_profile"), "sources"),
                            DictGet(search_log[i].result, "individual_matches"),
                            DictGet(search_log[i].result, "match_summary"),
                            search_log[i].matches)
            /\ QualityAgrees(DictGet(DictGet(search_log[i].result, "merged_profile"), "match_quality"),
                             DictGet(search_log[i].result, "individual_matches"),
                             DictGet(search_log[i].result, "match_summary"),
                             Retained(search_log[i]))

\* a search has retained at least three matches from two sources, a strong one and one that is not strong among them
C17_Witness ==
    \E i \in Searches :
        /\ Found(search_log[i])
        /\ DictGet(search_log[i].result, "match_summary").sources_matched = 2
        /\ DictGet(search_log[i].result, "match_summary").total_matches >= 3
        /\ DictGet(search_log[i].result, "match_summary").has_strong_matches
        /\ \E k \in 1..Len(Retained(search_log[i])) :
               ~DictGet(Retained(search_log[i])[k], "is_strong_match")

\* the sort-and-cap step has been called and has returned
RankReturned == rank_output # <<>>
\* the list it stored for the source (none for an empty input)
Ranked == IF Len(rank_output[1]) > 0 THEN DictGet(rank_output[1], "bank") ELSE <<>>
IsStrong(m) == DictGet(m, "is_strong_match")
Overall(m) == DictGet(m, "match_score")

\* a comes no later than b in descending order of (is_strong_match, overall score,
\* meets_requirements)
RankedBefore(a, b) ==
    \/ IsStrong(a) /\ ~IsStrong(b)
    \/ /\ IsStrong(a) = IsStrong(b)
       /\ \/ FloatCmp(Overall(a), Overall(b)) > 0
          \/ /\ FloatCmp(Overall(a), Overall(b)) = 0
             /\ DictGet(b, "meets_requirements") => DictGet(a, "meets_requirements")

\* C18: the list find_matches returns for a source is in descending lexicographic
\* order of (is_strong_match, overall score, meets_requirements): every strong
\* match precedes every match that is not strong, also one with a higher overall
\* score, and within equal strong status the overall scores do not increase.
C18_SourceListOrdered ==
    RankReturned =>
        \A a, b \in 1..Len(Ranked) :
            a < b => /\ RankedBefore(Ranked[a], Ranked[b])
                     /\ IsStrong(Ranked[b]) => IsStrong(Ranked[a])
                     /\ IsStrong(Ranked[a]) = IsStrong(Ranked[b])
                            => FloatCmp(Overall(Ranked[a]), Overall(Ranked[b])) >= 0

\* a strong match stands before a match that is not strong and has a higher overall
\* score, in a list whose input had them in the other order
C18_Witness ==
    /\ RankReturned
    /\ Len(Ranked) >= 2
    /\ IsStrong(Ranked[1]) /\ ~IsStrong(Ranked[Len(Ranked)])
    /\ FloatCmp(Overall(Ranked[1]), Overall(Ranked[Len(Ranked)])) < 0
    /\ ~IsStrong(rank_input[1])

\* a retained match as the individual-matches list shows it: the source name added,
\* the score data moved under match_info
Annotated(m, source_name) ==
    Append(Append(SelectSeq(m, LAMBDA column :
                                   column[1] \notin {"match_score", "field_scores", "is_strong_match"}),
                  <<"source_name", source_name>>),
           <<"match_info", [match_score |-> DictGet(m, "match_score"),
                            field_scores |-> DictGet(m, "field_scores"),
                            is_strong_match |-> DictGet(m, "is_strong_match")]>>)

\* every retained match of every source, annotated, source after source
RECURSIVE AnnotatedAll(_)
AnnotatedAll(matches) ==
    IF Len(matches) = 0 THEN <<>>
    ELSE [k \in 1..Len(matches[1][2]) |-> Annotated(matches[1][2][k], matches[1][1])]
         \o AnnotatedAll(Tail(matches))

Occurrences(x, list) == Cardinality({k \in 1..Len(list) : list[k] = x})
IsPermutation(list, other) ==
    /\ Len(list) = Len(other)
    /\ \A k \in 1..Len(other) : Occurrences(other[k], list) = Occurrences(other[k], other)

InfoOf(x) == DictGet(x, "match_info")
DescendingByStrongAndScore(list) ==
    \A a, b \in 1..Len(list) :
        a < b => /\ InfoOf(list[b]).is_strong_match => InfoOf(list[a]).is_strong_match
                 /\ InfoOf(list[a]).is_strong_match = InfoOf(list[b]).is_strong_match
                        => FloatCmp(InfoOf(list[a]).match_score, InfoOf(list[b]).match_score) >= 0

\* C19: the individual-matches list of a search is a permutation of the retained
\* matches of all sources, one after another, each annotated with the name of its
\* source; it is in descending order of (is_strong_match, overall score); no
\* retained match is lost or duplicated.
C19_IndividualIsSortedPermutation ==
    \A i \in Searches :
        Found(search_log[i]) =>
            /\ IsPermutation(DictGet(search_log[i].result, "individual_matches"),
                             AnnotatedAll(search_log[i].matches))
            /\ DescendingByStrongAndScore(DictGet(search_log[i].result, "individual_matches"))

\* a list of four matches of two sources in which the same row occurs twice and
\* whose first and last match come from different sources
C19_Witness ==
    \E i \in Searches :
        /\ Found(search_log[i])
        /\ Len(search_log[i].matches) = 2
        /\ Len(DictGet(search_log[i].result, "individual_matches")) = 4
        /\ DictGet(DictGet(search_log[i].result, "individual_matches")[1], "source_name")
               # DictGet(DictGet(search_log[i].result, "individual_matches")[4], "source_name")
        /\ \E k \in 1..3 : DictGet(search_log[i].result, "individual_matches")[k]
                               = DictGet(search_log[i].result, "individual_matches")[k + 1]

\* the columns of a row, without the scoring fields find_matches adds
InternalFields == {"match_score", "field_scores", "is_strong_match", "meets_requirements"}
\* the fields merge_matches adds
MetadataFields == {"sources", "match_count", "match_quality", "merged_at"}
Without(d, keys) == SelectSeq(d, LAMBDA column : column[1] \notin keys)
RowOf(m) == Without(m, InternalFields)
IndividualRowOf(x) == Without(x, {"source_name", "match_info", "meets_requirements"})
\* the merged profile is built on the row: they agree outside the metadata fields
BuiltOn(merged, row) == Without(merged, MetadataFields) = Without(row, MetadataFields)

\* the acceptance rule of the claim, on the aggregator outputs of a record
AcceptedByRule(scored, query) ==
    \/ _is_strong_match(scored.field_scores)
    \/ ScoreOr0(scored.field_scores, "national_id") = 100
    \/ /\ FloatCmp(scored.match_score, FloatFromInt(75)) >= 0
       /\ _meets_minimum_requirements(scored.field_scores, query)
       /\ Cardinality({f \in DOMAIN scored.field_scores : scored.field_scores[f] >= 75}) >= 2

\* the rows of a source that the rule accepts, in row order
RuleAccepts(query, source_name, records) ==
    SelectSeq(records, LAMBDA r :
        AcceptedByRule(MatchScoreOf(schema_mappings, query, r, source_name), query))

\* the list find_matches returned for a source (empty when it returned none)
ListOf(matches, source_name) == DictGetOr(matches, source_name, <<>>)

\* one source of one search: the listed matches are rows the rule accepts, a row it
\* rejects is listed nowhere, and all accepted rows are listed when the cap allows
AcceptedIffRule(entry, source_name, records, accepted, listed) ==
    /\ \A k \in 1..Len(listed) : InSeq(RowOf(listed[k]), accepted)
    /\ \A k \in 1..Len(records) :
           ~InSeq(records[k], accepted) =>
               /\ \A j \in 1..Len(listed) : RowOf(listed[j]) # records[k]
               /\ Found(entry) =>
                      /\ \A j \in 1..Len(DictGet(entry.result, "individual_matches")) :
                             IndividualRowOf(DictGet(entry.result, "individual_matches")[j])
                                 # records[k]
                      /\ ~BuiltOn(DictGet(entry.result, "merged_profile"), records[k])
    /\ Len(accepted) <= 3 => Len(listed) = Len(accepted)
    /\ Len(accepted) > 0 <=> DictHas(entry.matches, source_name)

\* C2: find_matches accepts a record if and only if it is a strong match, or its
\* national_id score is 100, or its overall score is at least 75 and the
\* minimum-requirements gate passes and at least 2 field scores are at least 75; a
\* rejected record is in no per-source list, in no individual-matches list and is
\* never the base of the merged profile.
C2_AcceptedIffRule ==
    \A i \in Searches : \A s \in 1..Len(LoadedSources) :
        AcceptedIffRule(search_log[i], LoadedSources[s][1], LoadedSources[s][2].records,
                        RuleAccepts(search_log[i].query, LoadedSources[s][1],
                                    LoadedSources[s][2].records),
                        ListOf(search_log[i].matches, LoadedSources[s][1]))

\* a search by name alone has rejected the one row whose name matches perfectly
\* (one field at 75 or more), next to a search that accepted rows of the same corpus
C2_Witness ==
    /\ Len(search_log) = 2
    /\ search_log[1].query = QueryNameOnly /\ ~Found(search_log[1])
    /\ Found(search_log[2])
    /\ \E s \in 1..Len(LoadedSources) :
           InSeq(CrmRow(KateWinslet, Date1980_01_01, Bank001Dashed, Blank, Blank, Web),
                 LoadedSources[s][2].records)

\* sum(score_f * weight_f) and sum(weight_f) over the stored fields, in stored order
RECURSIVE SumOver(_, _, _)
SumOver(fields, field_scores, weighted) ==
    IF Len(fields) = 0 THEN FloatZero
    ELSE FloatAdd(SumOver(SubSeq(fields, 1, Len(fields) - 1), field_scores, weighted),
                  IF weighted
                  THEN FloatMul(FloatFromInt(field_scores[fields[Len(fields)]]),
                                MATCH_WEIGHTS[fields[Len(fields)]])
                  ELSE MATCH_WEIGHTS[fields[Len(fields)]])

\* what the claim says of the aggregator outputs of one record
OverallAsClaimed(scored, fields, accepted) ==
    /\ FloatCmp(scored.match_score, FloatZero) >= 0
    /\ FloatCmp(scored.match_score, FloatFromInt(100)) <= 0
    /\ Len(fields) > 0 =>
           /\ FloatCmp(SumOver(fields, scored.field_scores, FALSE), FloatZero) > 0
           /\ FloatCmp(scored.match_score,
                       FloatDiv(SumOver(fields, scored.field_scores, TRUE),
                                SumOver(fields, scored.field_scores, FALSE))) = 0
    /\ Len(fields) = 0 => FloatCmp(scored.match_score, FloatZero) = 0 /\ ~accepted

OverallAsClaimedOf(query, record, source_name, scored) ==
    OverallAsClaimed(scored, ScoredFields(query, scored.field_scores),
                     MatchRecord(schema_mappings, query, record, source_name).accept_match)

\* C3: the overall score of a record is sum(score_f * weight_f) / sum(weight_f) over
\* exactly the fields stored in field_scores; it lies in [0,100]; the divisor is
\* positive when field_scores is not empty; the score is 0 when field_scores is
\* empty, and a record with empty field_scores is never accepted.
C3_OverallIsWeightedAverage ==
    \A i \in Searches : \A s \in 1..Len(LoadedSources) :
        \A k \in 1..Len(LoadedSources[s][2].records) :
            OverallAsClaimedOf(search_log[i].query, LoadedSources[s][2].records[k],
                               LoadedSources[s][1],
                               MatchScoreOf(schema_mappings, search_log[i].query,
                                            LoadedSources[s][2].records[k], LoadedSources[s][1]))

StrongCount(list) == Cardinality({k \in 1..Len(list) : IsStrong(list[k])})

\* the kept list is a part of the accepted list, and every match left out ranks no
\* higher than every match kept
HighestRankedKept(accepted, kept) ==
    \A k \in 1..Len(accepted) :
        /\ Occurrences(accepted[k], kept) <= Occurrences(accepted[k], accepted)
        /\ Occurrences(accepted[k], kept) < Occurrences(accepted[k], accepted) =>
               \A j \in 1..Len(kept) : RankedBefore(kept[j], accepted[k])

CappedAsClaimed(accepted, kept) ==
    /\ \A j \in 1..Len(kept) : InSeq(kept[j], accepted)
    /\ HighestRankedKept(accepted, kept)
    /\ IF StrongCount(accepted) > 0
       THEN /\ StrongCount(kept) = StrongCount(accepted)
            /\ Len(kept) - StrongCount(kept)
                   = Min2(2, Len(accepted) - StrongCount(accepted))
       ELSE Len(kept) = Min2(3, Len(accepted))

\* C4: the list find_matches returns for a source holds, when an accepted record
\* of the source is strong, every accepted strong record and exactly min(2, number
\* of accepted records that are not strong) records that are not strong, the
\* highest-ranked ones; when none is strong, exactly min(3, number of accepted
\* records), the highest-ranked ones.  10 accepted records give 3 results with 1
\* strong record and with none.
C4_CapPerSource ==
    RankReturned => CappedAsClaimed(rank_input, Ranked)

\* 10 accepted records, 1 of them strong and not the first, have given 3 results
C4_Witness ==
    /\ RankReturned
    /\ Len(rank_input) = 10
    /\ StrongCount(rank_input) = 1
    /\ ~IsStrong(rank_input[1])
    /\ Len(Ranked) = 3
    /\ IsStrong(Ranked[1])

HasPerfectId(field_scores) == ScoreOr0(field_scores, "national_id") = 100

\* the rows of a source whose national_id score is 100 are all in the list of the source
PerfectIdKept(query, source_name, records, listed) ==
    \A k \in 1..Len(records) :
        HasPerfectId(MatchScoreOf(schema_mappings, query, records[k], source_name).field_scores) =>
            /\ MatchRecord(schema_mappings, query, records[k], source_name).accept_match
            /\ Cardinality({j \in 1..Len(listed) : RowOf(listed[j]) = records[k]})
                   = Occurrences(records[k], records)

\* in the individual-matches list no match that is not strong stands before a match
\* whose national_id score is 100
PerfectIdFirst(individual) ==
    \A a, b \in 1..Len(individual) :
        (HasPerfectId(InfoOf(individual[b]).field_scores)
         /\ ~InfoOf(individual[a]).is_strong_match) => b < a

\* the only strong match of the search, when its national_id score is 100, is the base
OnlyStrongIsBase(merged, retained) ==
    \A k \in 1..Len(retained) :
        (StrongCount(retained) = 1 /\ HasPerfectId(DictGet(retained[k], "field_scores"))) =>
            BuiltOn(merged, RowOf(retained[k]))

\* C5: a record whose national_id score is 100 is accepted by find_matches whatever
\* its overall score and whatever the gate returns, is never removed by the
\* per-source cap, and precedes every match that is not strong in the
\* individual-matches list; when it is the only strong match of the search it is
\* the base of the merged profile.
C5_PerfectIdRetainedFirst ==
    \A i \in Searches :
        /\ \A s \in 1..Len(LoadedSources) :
               PerfectIdKept(search_log[i].query, LoadedSources[s][1],
                             LoadedSources[s][2].records,
                             ListOf(search_log[i].matches, LoadedSources[s][1]))
        /\ Found(search_log[i]) =>
               /\ PerfectIdFirst(DictGet(search_log[i].result, "individual_matches"))
               /\ OnlyStrongIsBase(DictGet(search_log[i].result, "merged_profile"),
                                   Retained(search_log[i]))

\* a row with ID score 100, an overall score below 75 and a failed gate is the only
\* strong match of a search that also retained a match with a higher overall score
C5_Witness ==
    \E i \in Searches :
        /\ Found(search_log[i])
        /\ StrongCount(Retained(search_log[i])) = 1
        /\ Len(Retained(search_log[i])) >= 2
        /\ \E k \in 1..Len(Retained(search_log[i])) :
               /\ HasPerfectId(DictGet(Retained(search_log[i])[k], "field_scores"))
               /\ ~DictGet(Retained(search_log[i])[k], "meets_requirements")
               /\ FloatCmp(Overall(Retained(search_log[i])[k]), FloatFromInt(75)) < 0
               /\ BuiltOn(DictGet(search_log[i].result, "merged_profile"),
                          RowOf(Retained(search_log[i])[k]))
               /\ FloatCmp(DictGet(search_log[i].result, "match_summary").highest_score,
                           Overall(Retained(search_log[i])[k])) > 0

QualityOf(merged) == DictGet(merged, "match_quality")

\* m ranks strictly higher than n under (is_strong_match, overall score)
RanksAbove(m, n) ==
    \/ IsStrong(m) /\ ~IsStrong(n)
    \/ IsStrong(m) = IsStrong(n) /\ FloatCmp(Overall(m), Overall(n)) > 0

\* the merged profile is built on the retained match m
BaseIs(merged, m) ==
    /\ BuiltOn(merged, RowOf(m))
    /\ QualityOf(merged).is_strong_match = IsStrong(m)
    /\ FloatCmp(QualityOf(merged).overall_score, Overall(m)) = 0

BaseIsBest(merged, individual, retained) ==
    /\ \E k \in 1..Len(retained) :
           /\ BaseIs(merged, retained[k])
           /\ \A j \in 1..Len(retained) : ~RanksAbove(retained[j], retained[k])
    /\ BuiltOn(merged, IndividualRowOf(individual[1]))
    /\ QualityOf(merged).is_strong_match = InfoOf(individual[1]).is_strong_match
    /\ FloatCmp(QualityOf(merged).overall_score, InfoOf(individual[1]).match_score) = 0
    /\ InSeq(DictGet(individual[1], "source_name"), DictGet(merged, "sources"))
    /\ QualityOf(merged).is_strong_match <=> StrongCount(retained) > 0

\* C6: the base of the merged profile is a maximal element of all retained matches
\* under (is_strong_match, overall score); it is the same record as the first
\* element of the individual-matches list of the same search; so
\* match_quality.is_strong_match holds iff some retained match is strong.
C6_BaseIsBest ==
    \A i \in Searches :
        Found(search_log[i]) =>
            BaseIsBest(DictGet(search_log[i].result, "merged_profile"),
                       DictGet(search_log[i].result, "individual_matches"),
                       Retained(search_log[i]))

\* the base is a strong match of the second source listed, and a match of the first
\* source that is not strong has a higher overall score
C6_Witness ==
    \E i \in Searches :
        /\ Found(search_log[i])
        /\ Len(search_log[i].matches) = 2
        /\ QualityOf(DictGet(search_log[i].result, "merged_profile")).is_strong_match
        /\ ~IsStrong(search_log[i].matches[1][2][1])
        /\ FloatCmp(Overall(search_log[i].matches[1][2][1]),
                    QualityOf(DictGet(search_log[i].result, "merged_profile")).overall_score) > 0
        /\ DictGet(DictGet(search_log[i].result, "individual_matches")[1], "source_name")
               = search_log[i].matches[2][1]

SameQuery(i, j) == search_log[i].query = search_log[j].query
IndividualOf(i) == DictGet(search_log[i].result, "individual_matches")
MergedOf(i) == DictGet(search_log[i].result, "merged_profile")

\* C7 as stated: two searches with the same query on the same corpus and mappings
\* give an identical individual-matches list and an identical merged profile, field
\* for field.
C7_SearchTwiceIdentical ==
    \A i, j \in Searches :
        SameQuery(i, j) =>
            /\ Found(search_log[i]) <=> Found(search_log[j])
            /\ Found(search_log[i]) =>
                   IndividualOf(i) = IndividualOf(j) /\ MergedOf(i) = MergedOf(j)

\* C7, amended: two searches with the same query on the same corpus and mappings
\* give an identical individual-matches list and merged profiles that are
\* identical in every field but merged_at, the time of the merge.
C7_SearchTwiceSameButTime ==
    \A i, j \in Searches :
        SameQuery(i, j) =>
            /\ Found(search_log[i]) <=> Found(search_log[j])
            /\ search_log[i].matches = search_log[j].matches
            /\ Found(search_log[i]) =>
                   /\ IndividualOf(i) = IndividualOf(j)
                   /\ DictPop(MergedOf(i), "merged_at") = DictPop(MergedOf(j), "merged_at")
                   /\ DictKeys(MergedOf(i)) = DictKeys(MergedOf(j))

\* the same query has been searched twice and has found matches, and the two merged
\* profiles differ in merged_at
C7_Witness ==
    /\ Len(search_log) = 2
    /\ SameQuery(1, 2)
    /\ Found(search_log[1]) /\ Found(search_log[2])
    /\ Len(IndividualOf(1)) >= 2
    /\ DictGet(MergedOf(1), "merged_at") # DictGet(MergedOf(2), "merged_at")

\* the position of the first maximal match of a list under (is_strong_match, overall score)
FirstBest(retained) ==
    CHOOSE k \in 1..Len(retained) :
        /\ \A j \in 1..Len(retained) : ~RanksAbove(retained[j], retained[k])
        /\ \A j \in 1..(k - 1) : RanksAbove(retained[k], retained[j])

SameRank(m, n) == ~RanksAbove(m, n) /\ ~RanksAbove(n, m)

\* C8: merge_matches is a deterministic reduction: for a given matches-by-source
\* input the base it selects is always the same record, and among matches with
\* equal (is_strong_match, overall score) it is the one that comes first in the
\* input order: first source in iteration order, then earliest position in the
\* ranked list of that source.
C8_BaseIsFirstBest ==
    \A i \in Searches :
        Found(search_log[i]) =>
            /\ BaseIs(MergedOf(i), Retained(search_log[i])[FirstBest(Retained(search_log[i]))])
            /\ \A j \in Searches :
                   search_log[j].matches = search_log[i].matches =>
                       Without(MergedOf(j), {"merged_at"}) = Without(MergedOf(i), {"merged_at"})

\* two different rows of two sources rank equal and highest, and the base is the
\* one of the source listed first
C8_Witness ==
    \E i \in Searches :
        /\ Found(search_log[i])
        /\ Len(search_log[i].matches) = 2
        /\ SameRank(search_log[i].matches[1][2][1], search_log[i].matches[2][2][1])
        /\ RowOf(search_log[i].matches[1][2][1]) # RowOf(search_log[i].matches[2][2][1])
        /\ BuiltOn(MergedOf(i), RowOf(search_log[i].matches[1][2][1]))
        /\ ~BuiltOn(MergedOf(i), RowOf(search_log[i].matches[2][2][1]))

\* C9: when merge_matches is given one source with one match, every column of the
\* record of the match is in the merged profile with its value unchanged, and the
\* merged profile differs from the record only by the internal scoring fields
\* removed and the metadata fields added; also for a record that has a column
\* named like a metadata field.
C9_SingleMatchRoundTrip ==
    \A i \in Searches :
        (Len(search_log[i].matches) = 1 /\ Len(search_log[i].matches[1][2]) = 1) =>
            /\ \A k \in 1..Len(RowOf(search_log[i].matches[1][2][1])) :
                   /\ DictHas(MergedOf(i), RowOf(search_log[i].matches[1][2][1])[k][1])
                   /\ DictGet(MergedOf(i), RowOf(search_log[i].matches[1][2][1])[k][1])
                          = RowOf(search_log[i].matches[1][2][1])[k][2]
            /\ \A f \in InternalFields : ~DictHas(MergedOf(i), f)
            /\ \A f \in MetadataFields : DictHas(MergedOf(i), f)
            /\ SeqToSet(DictKeys(MergedOf(i)))
                   = SeqToSet(DictKeys(RowOf(search_log[i].matches[1][2][1]))) \cup MetadataFields

\* a raw value the normalizer of the field turns into the empty string or rejects
Unusable(field, raw) ==
    CASE field = "national_id" -> Len(_normalize_id(raw)) = 0
      [] field = "full_name" -> Len(_normalize_name(raw)) = 0
      [] field = "dob" -> _normalize_date(raw) = None
      [] field = "email" -> _normalize_email(raw) = None
      [] field = "phone" -> _normalize_phone(raw) = None
      [] OTHER -> FALSE

\* the columns of the record a query field is scored against
ScoredColumns(field) ==
    SelectSeq(ResolveSourceFields(schema_mappings, field, score_input.record,
                                  score_input.source_name),
              LAMBDA col : DictHas(score_input.record, col))

\* the query value or the value of every scored column is unusable
NoSignal(field, val) ==
    \/ Unusable(field, val)
    \/ \A col \in SeqToSet(ScoredColumns(field)) :
           Unusable(field, DictGet(score_input.record, col))

\* C21: every field scorer returns 0, without raising, when the query value or the
\* candidate value normalizes to empty or invalid, and a field whose best score is 0
\* is not in field_scores and adds nothing to the weights of the overall score.
C21_NoSignalExcluded ==
    ScoreReturned =>
        \A i \in 1..Len(score_input.query) :
            NoSignal(score_input.query[i][1], score_input.query[i][2]) =>
                /\ \A col \in SeqToSet(ScoredColumns(score_input.query[i][1])) :
                       Unusable(score_input.query[i][1], score_input.query[i][2])
                       \/ Unusable(score_input.query[i][1], DictGet(score_input.record, col))
                       => FieldScorer(score_input.query[i][1], score_input.query[i][2],
                                      DictGet(score_input.record, col)) = 0
                /\ score_input.query[i][1] \notin DOMAIN score_output[2].field_scores

\* the scorers alone: a scorer called on its own has returned 0 when one of its two
\* values is unusable
ScorerField ==
    [name |-> "full_name", date |-> "dob", id |-> "national_id", email |-> "email",
     phone |-> "phone"]
ScorerReturned == Len(scorer_output) = 2 /\ scorer_output[1] = "returned"
UnusableScoresZero ==
    (ScorerReturned
     /\ (\/ Unusable(ScorerField[scorer_input.scorer], scorer_input.query_value)
         \/ Unusable(ScorerField[scorer_input.scorer], scorer_input.record_value)))
        => scorer_output[2] = 0

\* C22: the field-score set returned for a query and a record has no zero-valued
\* entry: every stored score is greater than 0 and at most 100, and its key is one
\* of the five weighted unified fields and a field of the query.
C22_StoredScoresPositive ==
    ScoreReturned =>
        \A field \in DOMAIN score_output[2].field_scores :
            /\ score_output[2].field_scores[field] > 0
            /\ score_output[2].field_scores[field] <= 100
            /\ field \in {"national_id", "full_name", "dob", "email", "phone"}
            /\ DictHas(score_input.query, field)

\* a query with a field that has no weight, a field that is stored and a field whose
\* score against the column of the record is 0 has been scored
C22_Witness ==
    /\ ScoreReturned
    /\ DictHas(score_input.query, "note")
    /\ DictHas(score_input.query, "dob") /\ DictHas(score_input.record, "birth_date")
    /\ DOMAIN score_output[2].field_scores = {"full_name"}

\* the step is a call of find_and_return_all_matches
SearchStep == Len(search_log') = Len(search_log) + 1
LastSearch == search_log'[Len(search_log')]

DayNumber(date) ==
    LET a == IF date[2] <= 2 THEN 1 ELSE 0
        y == date[1] + 4800 - a
        m == date[2] + 12 * a - 3
    IN date[3] + ((153 * m + 2) \div 5) + 365 * y + (y \div 4) - (y \div 100) + (y \div 400)
DaysApart(a, b) == Abs(DayNumber(ParseDate(a)) - DayNumber(ParseDate(b)))

\* the score the claim gives to two dates n days apart
DateBucket(n) ==
    IF n = 0 THEN 100 ELSE IF n = 1 THEN 90 ELSE IF n <= 7 THEN 80
    ELSE IF n <= 30 THEN 60 ELSE IF n <= 365 THEN 40 ELSE 0

\* the date scorer has returned for two values that normalize to valid dates
DatesScored ==
    /\ ScorerReturned
    /\ scorer_input.scorer = "date"
    /\ ~Unusable("dob", scorer_input.query_value)
    /\ ~Unusable("dob", scorer_input.record_value)

\* C24: for two values that normalize to valid dates n days apart the date score is
\* 100 if n = 0, 90 if n = 1, 80 if 2 <= n <= 7, 60 if 8 <= n <= 30, 40 if
\* 31 <= n <= 365 and 0 if n > 365; so date_score(d, d) = 100, date_score(d, d + 1
\* day) = 90, date_score(d, d + 400 days) = 0, and the score does not increase with n.
C24_DateScoreBuckets ==
    DatesScored =>
        scorer_output[2] = DateBucket(DaysApart(scorer_input.query_value,
                                                scorer_input.record_value))

\* the same for dates of the year 1000 and later
BucketsFromYear1000 ==
    (DatesScored /\ ParseDate(scorer_input.query_value)[1] >= 1000
                 /\ ParseDate(scorer_input.record_value)[1] >= 1000)
        => scorer_output[2] = DateBucket(DaysApart(scorer_input.query_value,
                                                   scorer_input.record_value))
\* the letters and digits of a string in their order, the letters in lower case
RECURSIVE Skeleton(_)
Skeleton(s) ==
    IF Len(s) = 0 THEN <<>>
    ELSE (IF IsDigit(Head(s)) \/ IsUpper(Head(s)) \/ IsLowerAlpha(Head(s))
          THEN <<LowerChar(Head(s))>> ELSE <<>>) \o Skeleton(Tail(s))

\* the ID scorer has returned for an ID with a letter or a digit and a string that
\* differs from it in letter case and in other characters only
SameIdScored ==
    /\ ScorerReturned
    /\ scorer_input.scorer = "id"
    /\ Len(Skeleton(scorer_input.query_value)) > 0
    /\ Skeleton(scorer_input.record_value) = Skeleton(scorer_input.query_value)

\* C25: for every non-empty national ID x that has at least one alphanumeric
\* character, the ID score of x against a string that differs from x only in letter
\* case or in non-alphanumeric characters (spaces, hyphens, punctuation) is 100.
C25_IdScoreIgnoresCaseAndPunctuation ==
    SameIdScored => scorer_output[2] = 100

\* an ID has been scored against itself written in the other case, with a hyphen
C25_Witness ==
    /\ SameIdScored
    /\ scorer_input.query_value = Bank001
    /\ scorer_input.record_value = Bank001Dashed
    /\ scorer_output[2] = 100

\* C26: the name score is symmetric: name_score(a, b) = name_score(b, a) for all
\* names a and b, the nickname, first-name-plus-last-initial and word-level scores
\* included.
C26_NameScoreSymmetric ==
    (ScorerReturned /\ scorer_input.scorer = "name") =>
        scorer_output[2] = _calculate_name_score(scorer_input.record_value,
                                                 scorer_input.query_value)

\* what the claim says of one retained match
RetainedAsClaimed(m) ==
    /\ ~IsStrong(m) =>
           /\ FloatCmp(Overall(m), FloatFromInt(75)) >= 0
           /\ DictGet(m, "meets_requirements")
           /\ Cardinality({f \in DOMAIN DictGet(m, "field_scores") :
                               DictGet(m, "field_scores")[f] >= 75}) >= 2
    /\ HasPerfectId(DictGet(m, "field_scores")) => IsStrong(m)

\* C27: every match find_matches retains that is not a strong match has an overall
\* score of at least 75, meets_requirements true and at least two field scores of at
\* least 75; and every retained match whose national_id score is 100 is a strong
\* match, so that the perfect-ID acceptance branch admits no record that is not strong.
C27_RetainedNonStrongIsGood ==
    \A i \in Searches :
        \A k \in 1..Len(Retained(search_log[i])) :
            RetainedAsClaimed(Retained(search_log[i])[k])

\* a search has retained a match that is not strong and a match whose national_id
\* score is 100
C27_Witness ==
    \E i \in Searches :
        /\ \E k \in 1..Len(Retained(search_log[i])) : ~IsStrong(Retained(search_log[i])[k])
        /\ \E k \in 1..Len(Retained(search_log[i])) :
               HasPerfectId(DictGet(Retained(search_log[i])[k], "field_scores"))

\* _load_schema_mappings has returned
Loaded == Len(loader_output) = 1

\* the directory has an enhanced and a legacy mapping file that declare the source
EnhancedAndLegacy(source_name) ==
    /\ \E i \in 1..Len(loader_input) : loader_input[i] = EnhancedFile(source_name)
    /\ \E i \in 1..Len(loader_input) : loader_input[i] = LegacyFile(source_name)

\* C28: when the schema mappings directory has an enhanced mapping file
\* (<name>_map.json) and a legacy mapping file (<name>_schema_map.json) that declare
\* the same source_name, the mapping held for the source after _load_schema_mappings
\* is the enhanced one, in whatever order the directory listing yields the files.
C28_EnhancedMappingKept ==
    Loaded =>
        \A source_name \in {"bank", "crm"} :
            EnhancedAndLegacy(source_name) =>
                /\ DictHas(loader_output[1], source_name)
                /\ DictGet(loader_output[1], source_name) = EnhancedFile(source_name).mapping

\* the same when the directory lists the legacy file before the enhanced file
EnhancedKeptWhenListedLast ==
    Loaded =>
        \A source_name \in {"bank", "crm"} :
            (\E i, j \in 1..Len(loader_input) :
                 /\ i < j
                 /\ loader_input[i] = LegacyFile(source_name)
                 /\ loader_input[j] = EnhancedFile(source_name)) =>
                DictGet(loader_output[1], source_name) = EnhancedFile(source_name).mapping


\* the mapping generate_schema_mapping returned to the worker of a source, if any
Generated(source_name) == schema_agent.workers[source_name].mapping

\* C29: every mapping returned by generate_schema_mapping(s), and every mapping saved
\* to s_schema_map.json, has source_name = s, also when the mapping is served from the
\* schema-hash cache and when the sources are processed in parallel.
C29_MappingNamesItsSource ==
    \A source_name \in SourceNames :
        /\ Generated(source_name) # <<>> =>
               DictGet(Generated(source_name)[1], "source_name") = source_name
        /\ DictHas(schema_agent.mapping_files, source_name) =>
               DictGet(DictGet(schema_agent.mapping_files, source_name), "source_name")
                   = source_name

\* the same for the sources whose fields the call itself mapped
MappedHereNamesItsSource ==
    \A source_name \in SourceNames :
        schema_agent.workers[source_name].mapped_fields =>
            DictGet(Generated(source_name)[1], "source_name") = source_name

\* the cache content was written by generate_schema_mapping of this agent instance
WrittenHere(cache_content) ==
    /\ cache_content # <<>>
    /\ \E source_name \in SourceNames :
           /\ schema_agent.workers[source_name].mapped_fields
           /\ Generated(source_name) = cache_content

\* C30: within one agent instance, once generate_schema_mapping has written a mapping
\* to the cache for a set of column names, every later _get_cached_mapping lookup for
\* the same set of column names returns a cached mapping, and generate_schema_mapping
\* does not map the fields again.
C30_CacheServesLaterLookups ==
    /\ \A i \in 1..Len(schema_agent.lookups) :
           WrittenHere(schema_agent.lookups[i].cache_at_call) =>
               schema_agent.lookups[i].returned # <<>>
    /\ \A source_name \in SourceNames :
           schema_agent.workers[source_name].mapped_fields =>
               ~WrittenHere(schema_agent.workers[source_name].cache_at_call)

\* a lookup never returns a mapping for another set of column names
LookupReturnsSameColumns ==
    \A i \in 1..Len(schema_agent.lookups) :
        LET lookup == schema_agent.lookups[i]
        IN  lookup.returned # <<>> =>
                _get_schema_hash(DictGet(lookup.returned[1], "source_fields"))
                    = lookup.schema_hash
====
